---- MODULE Spec2Model ----
(***************************************************************************)
(* State-machine model of the ColdQuery session/connection lifecycle:      *)
(* SessionManager (core/session.py), resolve_executor (core/context.py),   *)
(* the two executors (core/executor.py) and the transaction lifecycle      *)
(* handlers (actions/tx/lifecycle.py).                                     *)
(*                                                                         *)
(* Coroutines are modelled as tasks that take one atomic step between two  *)
(* suspension points (await of pool.acquire, of a statement, of            *)
(* connection.close).  Session ids (uuid4) are modelled as fresh integers; *)
(* 0 is the empty string and None is "no id supplied".                     *)
(***************************************************************************)
EXTENDS Integers, FiniteSets, Sequences, TLC

\* ---- program constants ----
MAX_SESSIONS == 10
SESSION_TTL_MINUTES == 30

\* ---- bounds of the model ----
PoolSize == 11      \* connections the pool can hand out
NumTasks == 2       \* concurrently running handler coroutines
MaxIds == 2         \* session ids created under Spec
MaxIdsCap == 12     \* session ids created under SpecCap
MaxVals == 1        \* distinct row values that are ever inserted
TickMinutes == 30   \* minutes the clock advances per Tick
MaxClock == 30      \* the clock stops here
CloseWindow == 3    \* SpecCap closes and expires only its latest ids
MaxValsTx == 2      \* distinct row values that are ever inserted under SpecTx
MaxOps == 2         \* operations of a batch transaction
TimeoutMs == 50     \* the timeout_ms that execute is called with
MaxClients == 2     \* client sessions connected to the server
MaxCallers == 3     \* coroutines that call a pool executor that has no pool yet

Ids == 1..MaxIdsCap
Conns == 1..PoolSize
Tasks == 1..NumTasks
Callers == 1..MaxCallers
Clients == 1..MaxClients
Vals == 1..MaxVals
TxVals == 1..MaxValsTx
None == -1
EmptyStr == 0
NoTimer == -1
PoolExecutor == -2
InvalidSession == -3
SidInputs == {EmptyStr} \cup (1..MaxIds)
CapCloseIds == (MaxIdsCap - CloseWindow + 1)..MaxIdsCap

VARIABLES
    clock,        \* loop time, minutes
    nextId,       \* index of the next uuid4
    sessions,     \* SessionManager._sessions: id -> SessionData
    closed,       \* ids that were popped from _sessions
    loopTimers,   \* call_later handles that are scheduled and not cancelled
    expireTasks,  \* id -> number of created, not yet run _expire_session tasks
    connState,    \* pool slot -> "idle" (its connection is open and in the pool)
                  \* | "acquired" | "closed" (its connection was closed)
    execConn,     \* executor -> its connection (0: none yet)
    disconnects,  \* executor -> number of disconnect() invocations
    closing,      \* executors whose connection.close() is in flight
    tx,           \* engine: connection -> "none" | "open" | "aborted"
    pending,      \* engine: connection -> uncommitted inserted values
    committed,    \* engine: committed values
    writer,       \* value -> 0 (not written) | the session id its INSERT was
                  \* called with | None (called with no session id)
    stmtTimeout,  \* engine: connection -> its statement_timeout, ms (0: none),
                  \* now and when its transaction began
    call,         \* the arguments of a call of a function that is looked at alone
    ret,          \* what that call returned or raised
    pool,         \* AsyncpgPoolExecutor._pool: 0 is None, else the pool's number
    created,      \* number of pools asyncpg.create_pool has made
    caller,       \* first-time caller of the pool executor -> its position
    ctxSession,   \* client session -> its ctx.session mapping
    environ,      \* os.environ, the variables that are set
    unlockLog,    \* the <<client session, token>> of the auth_unlock calls made
    task,         \* coroutine -> its position
    last          \* the event of the latest step

vars == <<clock, nextId, sessions, closed, loopTimers, expireTasks, connState,
          execConn, disconnects, closing, tx, pending, committed, writer, stmtTimeout,
          call, ret, pool, created, caller, ctxSession, environ, unlockLog, task, last>>

poolVars == <<pool, created, caller>>

authVars == <<ctxSession, environ, unlockLog>>

IdleTask == [op |-> "none", pc |-> "idle", id |-> 0, conn |-> 0,
             kind |-> "none", val |-> 0, res |-> "none",
             ops |-> << >>, i |-> 0, log |-> << >>]

EventX(op, id, res, ex, rows) == [op |-> op, id |-> id, res |-> res, ex |-> ex, rows |-> rows]
Event(op, id, res) == EventX(op, id, res, 0, {})

\* ---- SessionManager helpers ----

uuid4Reused(n) == 1
\* str(uuid.uuid4()): the n-th id drawn is new
uuid4(n) == n

Live == DOMAIN sessions

CapOffByOne(S) == Cardinality(DOMAIN S) > MAX_SESSIONS
\* len(self._sessions) >= MAX_SESSIONS
CapReached(S) == Cardinality(DOMAIN S) >= MAX_SESSIONS

CapRecheckMissing(S) == FALSE
\* the double check after the await of pool_executor.create_session()
CapReachedAfterAwait(S) == Cardinality(DOMAIN S) >= MAX_SESSIONS

Handle(sid, when) == [sid |-> sid, when |-> when]

CancelNothing(timers, sid, when) == timers
\* TimerHandle.cancel()
Cancel(timers, sid, when) == timers \ {Handle(sid, when)}

\* SessionData(session_id, executor) stored under session_id
Register(S, sid, e) ==
    [s \in DOMAIN S \cup {sid} |->
        IF s = sid THEN [executor |-> e, last_accessed |-> clock, ttl_timer |-> NoTimer]
        ELSE S[s]]

\* _reset_ttl: the new _sessions map
ResetTtlSessions(S, sid) ==
    IF sid \in DOMAIN S
    THEN [S EXCEPT ![sid].ttl_timer = clock + SESSION_TTL_MINUTES]
    ELSE S

ResetTtlNoCancel(S, timers, sid) ==
    IF sid \in DOMAIN S
    THEN timers \cup {Handle(sid, clock + SESSION_TTL_MINUTES)}
    ELSE timers

\* _reset_ttl: the loop's timers (cancel the old handle, schedule a new one)
ResetTtlTimers(S, timers, sid) ==
    IF sid \in DOMAIN S
    THEN Cancel(timers, sid, S[sid].ttl_timer)
             \cup {Handle(sid, clock + SESSION_TTL_MINUTES)}
    ELSE timers

\* get_session: read-only lookup
get_session(S, sid) == IF sid \in DOMAIN S THEN S[sid].executor ELSE None

\* get_session_executor: the returned executor (None when absent)
LookupExecutor(S, sid) == IF sid \in DOMAIN S THEN S[sid].executor ELSE None

\* get_session_executor: the new _sessions map
LookupSessions(S, sid) ==
    IF sid \in DOMAIN S
    THEN ResetTtlSessions([S EXCEPT ![sid].last_accessed = clock], sid)
    ELSE S

\* get_session_executor: the loop's timers
LookupTimers(S, timers, sid) == ResetTtlTimers(S, timers, sid)

PopKeeps(S, sid) == S
\* close_session: _sessions.pop(session_id, None)
Pop(S, sid) == [s \in DOMAIN S \ {sid} |-> S[s]]

\* pool.acquire(): the lowest slot that is not handed out; a slot whose
\* connection was closed gets a new connection
IdleConns == {c \in Conns : connState[c] \in {"idle", "closed"}}
\* Pool.get_idle_size(), Pool.get_size(): the open connections that are idle,
\* the open connections
get_idle_size == Cardinality({c \in Conns : connState[c] = "idle"})
get_size == Cardinality({c \in Conns : connState[c] \notin {"closed", "absent"}})
\* connections that are handed out
\* (a slot that is "absent" is beyond the pool's max_size: never handed out)
InUse == {c \in Conns : connState[c] = "acquired"}

\* close_session, create_session: executor.disconnect(destroy=True)
destroy == TRUE

ConnKeep(C, c) == C
ConnRelease(C, c) == [C EXCEPT ![c] = "idle"]
\* AsyncpgSessionExecutor.disconnect: connection.close(); the connection is
\* closed and its slot is no longer handed out
ConnClose(C, c) == [C EXCEPT ![c] = "closed"]

SessionConnReleased(C, c) == IF C[c] = "acquired" THEN [C EXCEPT ![c] = "idle"] ELSE C
\* AsyncpgSessionExecutor.execute: the executor's connection is neither
\* released nor closed when the statement is done
SessionConnKept(C, c) == C

PoolLeak(C, c) == C
\* async with pool.acquire(): on exit the connection is released
PoolRelease(C, c) == [C EXCEPT ![c] = "idle"]
acquireAny == CHOOSE c \in Conns : TRUE
acquire == CHOOSE c \in IdleConns : \A d \in IdleConns : c <= d

\* _pool: Optional[asyncpg.Pool] = None
NoPool == 0
IdleCaller == [pc |-> "idle", fn |-> "none", pool |-> NoPool]

\* ---- state after construction ----
InitEnv(C, env) ==
    /\ clock = 0
    /\ nextId = 1
    /\ sessions = << >>
    /\ closed = {}
    /\ loopTimers = {}
    /\ expireTasks = [i \in Ids |-> 0]
    /\ connState = C
    /\ execConn = [i \in Ids |-> 0]
    /\ disconnects = [i \in Ids |-> 0]
    /\ closing = {}
    /\ tx = [c \in Conns |-> "none"]
    /\ pending = [c \in Conns |-> {}]
    /\ committed = {}
    /\ writer = [v \in TxVals |-> 0]
    /\ stmtTimeout = [c \in Conns |-> [cur |-> 0, atBegin |-> 0]]
    /\ task = [t \in Tasks |-> IdleTask]
    /\ last = Event("init", 0, "none")
    /\ pool = NoPool
    /\ created = 0
    /\ caller = [c \in Callers |-> IdleCaller]
    /\ ctxSession = [c \in Clients |-> << >>]
    /\ environ = env
    /\ unlockLog = {}

\* COLDQUERY_AUTH_TOKEN is not set
InitPool(C) == InitEnv(C, << >>)

\* every slot of the pool can be handed out
InitCore == InitPool([c \in Conns |-> "idle"])

NoCall == [fn |-> "none"]

Init == InitCore /\ call = NoCall /\ ret = NoCall

\* ---- close_session, up to its await of executor.disconnect ----
\* close_session(sid) on the registry S and the timers T
DisconnectCount(D, e) == [D EXCEPT ![e] = @ + 1]

RejectLeak(D, e) == D
\* create_session: await session_executor.disconnect(destroy=True) before raising
RejectDisconnect(D, e) == DisconnectCount(D, e)

CloseOn(S, T, sid) ==
    IF sid \in DOMAIN S
    THEN /\ sessions' = Pop(S, sid)
         /\ closed' = closed \cup {sid}
         /\ loopTimers' = Cancel(T, sid, S[sid].ttl_timer)
         /\ disconnects' = DisconnectCount(disconnects, S[sid].executor)
         /\ closing' = closing \cup {S[sid].executor}
    ELSE /\ sessions' = S
         /\ loopTimers' = T
         /\ UNCHANGED <<closed, disconnects, closing>>

CloseEffect(sid) == CloseOn(sessions, loopTimers, sid)

\* ---- begin_handler: the isolation level ----
valid_levels == {"READ UNCOMMITTED", "READ COMMITTED", "REPEATABLE READ", "SERIALIZABLE"}

\* str.upper() on the isolation levels that are supplied
upper(s) ==
    CASE s = "serializable" -> "SERIALIZABLE"
      [] s = "Read Committed" -> "READ COMMITTED"
      [] s = "chaos" -> "CHAOS"
      [] OTHER -> s

IsoNeverInvalid(iso) == FALSE
\* if isolation_level: if isolation_level.upper() not in valid_levels: raise
IsoInvalid(iso) == iso # "" /\ upper(iso) \notin valid_levels

\* the statement begin_handler executes
BeginSql(iso) ==
    IF iso = "" THEN "BEGIN" ELSE "BEGIN ISOLATION LEVEL " \o upper(iso)

\* the BEGIN statements the engine knows
ValidBegin == {"BEGIN"} \cup {"BEGIN ISOLATION LEVEL " \o l : l \in valid_levels}

BeginNoCleanup(S, T, sid) ==
    sessions' = S /\ loopTimers' = T /\ UNCHANGED <<closed, disconnects, closing>>
\* except Exception: close_session(session_id)
BeginCleanup(S, T, sid) == CloseOn(S, T, sid)

\* ---- create_session ----
\* first cap check, uuid4, call of pool_executor.create_session(): pool.acquire()
\* takes an idle connection at the call when there is one, and waits otherwise.
\* op is "create" (create_session called directly) or "begin" (begin_handler,
\* whose isolation_level argument is iso).
CreateCheck(t, op, iso, maxIds) ==
    /\ task[t].pc = "idle"
    /\ IF CapReached(sessions)
       THEN /\ last' = Event(op, 0, "cap_error")
            /\ UNCHANGED <<nextId, task, connState, execConn>>
       ELSE /\ nextId <= maxIds
            /\ nextId' = nextId + 1
            /\ last' = Event("create_check", uuid4(nextId), "passed")
            /\ IF IdleConns # {}
               THEN /\ connState' = [connState EXCEPT ![acquire] = "acquired"]
                    /\ execConn' = [execConn EXCEPT ![uuid4(nextId)] = acquire]
                    /\ task' = [task EXCEPT ![t] = [IdleTask EXCEPT !.op = op, !.pc = "acquired",
                                    !.id = uuid4(nextId), !.conn = acquire, !.kind = iso]]
               ELSE /\ task' = [task EXCEPT ![t] = [IdleTask EXCEPT !.op = op, !.pc = "acquiring",
                                    !.id = uuid4(nextId), !.kind = iso]]
                    /\ UNCHANGED <<connState, execConn>>
    /\ UNCHANGED <<clock, sessions, closed, loopTimers, expireTasks,
                   disconnects, closing, tx, pending, committed,
                   writer, stmtTimeout, call, poolVars, authVars, ret>>

\* a coroutine waiting in pool.acquire() gets a connection that became idle
CreateAcquire(t) ==
    /\ task[t].pc = "acquiring"
    /\ task[t].op \in {"create", "begin"}
    /\ IdleConns # {}
    /\ connState' = [connState EXCEPT ![acquire] = "acquired"]
    /\ execConn' = [execConn EXCEPT ![task[t].id] = acquire]
    /\ task' = [task EXCEPT ![t].pc = "acquired", ![t].conn = acquire]
    /\ last' = Event("acquire", task[t].id, "ok")
    /\ UNCHANGED <<clock, nextId, sessions, closed, loopTimers, expireTasks,
                   disconnects, closing, tx, pending, committed, writer, stmtTimeout, call, poolVars, authVars, ret>>

\* create_session resumes after the await: double check, then either
\* disconnect and raise, or register, _reset_ttl and return the id.
\* begin_handler goes on without suspension: get_session_executor(id), the
\* isolation level check, and executor.execute(BEGIN ...) up to its await;
\* an invalid isolation level raises into the except branch: close_session(id).
CreateResume(t) ==
    /\ task[t].pc = "acquired"
    /\ LET id == task[t].id
           S1 == ResetTtlSessions(Register(sessions, id, id), id)
           T1 == ResetTtlTimers(Register(sessions, id, id), loopTimers, id)
           S2 == LookupSessions(S1, id)
           T2 == LookupTimers(S1, T1, id)
       IN
       IF CapReachedAfterAwait(sessions)
       THEN /\ disconnects' = RejectDisconnect(disconnects, id)
            /\ closing' = closing \cup {id}
            /\ task' = [task EXCEPT ![t].pc = "rejecting"]
            /\ last' = Event("create_resume", id, "rejecting")
            /\ UNCHANGED <<sessions, loopTimers, closed>>
       ELSE IF task[t].op = "create"
       THEN /\ sessions' = S1
            /\ loopTimers' = T1
            /\ task' = [task EXCEPT ![t] = IdleTask]
            /\ last' = Event("create", id, "ok")
            /\ UNCHANGED <<disconnects, closing, closed>>
       ELSE IF task[t].op = "begin" /\ IsoInvalid(task[t].kind)
       THEN /\ BeginCleanup(S2, T2, id)
            /\ task' = [task EXCEPT ![t].pc = "closing", ![t].res = "iso_error"]
            /\ last' = Event("begin_close", id, "iso_error")
       ELSE /\ sessions' = S2
            /\ loopTimers' = T2
            /\ task' = [task EXCEPT ![t].pc = "exec",
                            ![t].kind = IF task[t].op = "begin" THEN BeginSql(task[t].kind)
                                        ELSE "BEGIN"]
            /\ last' = Event("begin_send", id, "found")
            /\ UNCHANGED <<disconnects, closing, closed>>
    /\ UNCHANGED <<clock, nextId, expireTasks, connState, execConn,
                   tx, pending, committed, writer, stmtTimeout, call, poolVars, authVars, ret>>

\* ---- close_session(sid) called directly ----
CloseStart(t, sid) ==
    /\ task[t].pc = "idle"
    /\ CloseEffect(sid)
    /\ IF sid \in Live
       THEN /\ task' = [task EXCEPT ![t] = [IdleTask EXCEPT !.op = "close", !.pc = "closing",
                                                       !.id = sessions[sid].executor, !.res = "closed"]]
            /\ last' = Event("close_pop", sid, "present")
       ELSE /\ task' = task
            /\ last' = Event("close", 0, "noop")
    /\ UNCHANGED <<clock, nextId, expireTasks, connState, execConn,
                   tx, pending, committed, writer, stmtTimeout, call, poolVars, authVars, ret>>

\* ---- connection.close() of executor e completes ----
\* the connection is torn down (its open transaction is rolled back by the
\* engine), the pool slot is free again and every coroutine that awaits this
\* disconnect returns or raises
Waiting(t, e) == task[t].pc \in {"closing", "rejecting"} /\ task[t].id = e

DisconnectDone(e) ==
    /\ e \in closing
    /\ closing' = closing \ {e}
    /\ connState' = ConnClose(connState, execConn[e])
    \* the engine ends the session of a connection that is closed
    /\ tx' = IF connState'[execConn[e]] = "closed"
             THEN [tx EXCEPT ![execConn[e]] = "none"] ELSE tx
    /\ pending' = IF connState'[execConn[e]] = "closed"
                  THEN [pending EXCEPT ![execConn[e]] = {}] ELSE pending
    /\ stmtTimeout' = IF connState'[execConn[e]] = "closed"
                      THEN [stmtTimeout EXCEPT ![execConn[e]] = [cur |-> 0, atBegin |-> 0]]
                      ELSE stmtTimeout
    /\ task' = [t \in Tasks |-> IF Waiting(t, e) THEN IdleTask ELSE task[t]]
    /\ last' = IF \E t \in Tasks : Waiting(t, e)
               THEN LET t == CHOOSE u \in Tasks : Waiting(u, e) IN
                    EventX(task[t].op, e,
                           IF task[t].pc = "rejecting" THEN "cap_error" ELSE task[t].res,
                           task[t].i,
                           IF task[t].op = "batch" THEN task[t].log ELSE {})
               ELSE Event("expire", e, "closed")
    /\ UNCHANGED <<clock, nextId, sessions, closed, loopTimers, expireTasks,
                   execConn, disconnects, committed, writer, call, poolVars, authVars, ret>>

\* ---- expiry ----
\* the call_later handle h is due: its callback creates the _expire_session task
TimerFire(h) ==
    /\ h \in loopTimers
    /\ clock >= h.when
    /\ loopTimers' = loopTimers \ {h}
    /\ expireTasks' = [expireTasks EXCEPT ![h.sid] = @ + 1]
    /\ last' = Event("timer", h.sid, "fired")
    /\ UNCHANGED <<clock, nextId, sessions, closed, connState, execConn,
                   disconnects, closing, tx, pending, committed, writer, stmtTimeout, call, poolVars, authVars, ret, task>>

ExpireNoop(sid) == UNCHANGED <<sessions, closed, loopTimers, disconnects, closing>>
\* _expire_session: await self.close_session(session_id)
ExpireCloses(sid) == CloseEffect(sid)

\* the _expire_session(sid) task runs close_session(sid) up to its await
ExpireRun(sid) ==
    /\ expireTasks[sid] > 0
    /\ expireTasks' = [expireTasks EXCEPT ![sid] = @ - 1]
    /\ ExpireCloses(sid)
    /\ last' = Event("expire_run", sid, IF sid \in Live THEN "present" ELSE "noop")
    /\ UNCHANGED <<clock, nextId, connState, execConn, tx, pending, committed,
                   writer, stmtTimeout, call, poolVars, authVars, ret, task>>

\* ---- time passes ----
Tick ==
    /\ clock + TickMinutes <= MaxClock
    /\ clock' = clock + TickMinutes
    /\ last' = Event("tick", 0, "none")
    /\ UNCHANGED <<nextId, sessions, closed, loopTimers, expireTasks, connState,
                   execConn, disconnects, closing, tx, pending, committed,
                   writer, stmtTimeout, call, poolVars, authVars, ret, task>>

\* ---- SessionManager lookups called directly ----
\* get_session(sid), also as enrich_response calls it
GetSession(sid) ==
    /\ last' = Event("get_session", sid,
                     IF get_session(sessions, sid) = None THEN "none" ELSE "found")
    /\ UNCHANGED <<clock, nextId, sessions, closed, loopTimers, expireTasks,
                   connState, execConn, disconnects, closing, tx, pending,
                   committed, writer, stmtTimeout, call, poolVars, authVars, ret, task>>

\* get_session_executor(sid)
GetSessionExecutor(sid) ==
    /\ sessions' = LookupSessions(sessions, sid)
    /\ loopTimers' = LookupTimers(sessions, loopTimers, sid)
    /\ last' = EventX("get_session_executor", sid,
                      IF LookupExecutor(sessions, sid) = None THEN "none" ELSE "found",
                      LookupExecutor(sessions, sid), {})
    /\ UNCHANGED <<clock, nextId, closed, expireTasks, connState, execConn,
                   disconnects, closing, tx, pending, committed, writer, stmtTimeout, call, poolVars, authVars, ret, task>>

\* ---- resolve_executor ----
\* Python truth value of the session_id argument
Falsy(sid) == sid \in {None, EmptyStr}

ResolveFallsBack(S, sid) ==
    IF Falsy(sid) \/ LookupExecutor(S, sid) = None THEN PoolExecutor
    ELSE LookupExecutor(S, sid)

\* the executor resolve_executor returns, or InvalidSession when it raises
resolve_executor(S, sid) ==
    IF Falsy(sid) THEN PoolExecutor
    ELSE IF LookupExecutor(S, sid) = None THEN InvalidSession
    ELSE LookupExecutor(S, sid)

\* a statement is in flight on connection c
Busy(c) == \E u \in Tasks : task[u].pc = "exec" /\ task[u].conn = c

\* ---- resolve_executor(ctx, sid), then executor.execute(sql) up to its await ----
\* (the statement is issued on the executor that resolve_executor returns; the
\* action handlers' own "await resolve_executor(...)" is not part of this step)
\* kind is the statement ("INSERT" of value v, or "SELECT"); every INSERT
\* writes a row of its own
Fresh(v) == writer[v] = 0 /\ \A u \in Tasks : task[u].val # v

Execute(t, sid, kind, v) ==
    /\ task[t].pc = "idle"
    /\ kind = "INSERT" => Fresh(v)
    /\ LET ex == resolve_executor(sessions, sid) IN
       /\ IF Falsy(sid)
          THEN UNCHANGED <<sessions, loopTimers>>
          ELSE /\ sessions' = LookupSessions(sessions, sid)
               /\ loopTimers' = LookupTimers(sessions, loopTimers, sid)
       /\ IF ex = InvalidSession
          THEN \* ValueError("Invalid or expired session")
               /\ task' = task
               /\ last' = EventX("resolve", sid, "invalid", ex, {})
               /\ UNCHANGED connState
          ELSE IF ex = PoolExecutor
          THEN \* AsyncpgPoolExecutor.execute: async with pool.acquire(); a call
               \* that finds no idle connection waits, and has done nothing yet
               /\ IdleConns # {}
               /\ last' = EventX("resolve", sid, "pool", ex, {})
               /\ connState' = [connState EXCEPT ![acquire] = "acquired"]
               /\ task' = [task EXCEPT ![t] = [IdleTask EXCEPT !.op = "stateless",
                               !.pc = "exec", !.id = sid, !.conn = acquire,
                               !.kind = kind, !.val = v]]
          ELSE IF Busy(execConn[ex])
          THEN \* asyncpg: another operation is in progress
               /\ task' = task
               /\ last' = EventX("resolve", sid, "busy", ex, {})
               /\ UNCHANGED connState
          ELSE /\ task' = [task EXCEPT ![t] = [IdleTask EXCEPT !.op = "session",
                               !.pc = "exec", !.id = ex, !.conn = execConn[ex],
                               !.kind = kind, !.val = v]]
               /\ last' = EventX("resolve", sid, "found", ex, {})
               /\ UNCHANGED connState
    /\ UNCHANGED <<clock, nextId, closed, expireTasks, execConn, disconnects,
                   closing, tx, pending, committed, writer, stmtTimeout, call, poolVars, authVars, ret>>

EndNoCleanup(S, T, sid) ==
    sessions' = S /\ loopTimers' = T /\ UNCHANGED <<closed, disconnects, closing>>
\* commit_handler, rollback_handler: finally: close_session(session_id)
EndFinally(S, T, sid) == CloseOn(S, T, sid)

\* ---- commit_handler up to the await of executor.execute("COMMIT") ----
CommitStart(t, sid) ==
    /\ task[t].pc = "idle"
    /\ IF Falsy(sid)
       THEN \* ToolError("session_id is required")
            /\ last' = Event("commit", sid, "required")
            /\ UNCHANGED <<sessions, loopTimers, task, closed, disconnects, closing>>
       ELSE IF LookupExecutor(sessions, sid) = None
       THEN \* ToolError("Invalid or expired session")
            /\ last' = Event("commit", sid, "invalid")
            /\ UNCHANGED <<sessions, loopTimers, task, closed, disconnects, closing>>
       ELSE IF Busy(execConn[LookupExecutor(sessions, sid)])
       THEN \* execute raises at once; finally: close_session(sid)
            /\ EndFinally(LookupSessions(sessions, sid),
                          LookupTimers(sessions, loopTimers, sid), sid)
            /\ task' = [task EXCEPT ![t] = [IdleTask EXCEPT !.op = "commit", !.pc = "closing",
                            !.id = LookupExecutor(sessions, sid), !.res = "error"]]
            /\ last' = Event("commit_close", sid, "busy")
       ELSE /\ sessions' = LookupSessions(sessions, sid)
            /\ loopTimers' = LookupTimers(sessions, loopTimers, sid)
            /\ task' = [task EXCEPT ![t] = [IdleTask EXCEPT !.op = "commit", !.pc = "exec",
                            !.id = LookupExecutor(sessions, sid),
                            !.conn = execConn[LookupExecutor(sessions, sid)],
                            !.kind = "COMMIT"]]
            /\ last' = EventX("commit_send", sid, "found", LookupExecutor(sessions, sid), {})
            /\ UNCHANGED <<closed, disconnects, closing>>
    /\ UNCHANGED <<clock, nextId, expireTasks, connState, execConn,
                   tx, pending, committed, writer, stmtTimeout, call, poolVars, authVars, ret>>

RollbackSqlCommit == "COMMIT"
\* the statement rollback_handler executes
RollbackSql == "ROLLBACK"

\* ---- rollback_handler up to the await of executor.execute("ROLLBACK") ----
RollbackStart(t, sid) ==
    /\ task[t].pc = "idle"
    /\ IF Falsy(sid)
       THEN \* ToolError("session_id is required")
            /\ last' = Event("rollback", sid, "required")
            /\ UNCHANGED <<sessions, loopTimers, task, closed, disconnects, closing>>
       ELSE IF LookupExecutor(sessions, sid) = None
       THEN \* ToolError("Invalid or expired session")
            /\ last' = Event("rollback", sid, "invalid")
            /\ UNCHANGED <<sessions, loopTimers, task, closed, disconnects, closing>>
       ELSE IF Busy(execConn[LookupExecutor(sessions, sid)])
       THEN \* execute raises at once; finally: close_session(sid)
            /\ EndFinally(LookupSessions(sessions, sid),
                          LookupTimers(sessions, loopTimers, sid), sid)
            /\ task' = [task EXCEPT ![t] = [IdleTask EXCEPT !.op = "rollback", !.pc = "closing",
                            !.id = LookupExecutor(sessions, sid), !.res = "error"]]
            /\ last' = Event("rollback_close", sid, "busy")
       ELSE /\ sessions' = LookupSessions(sessions, sid)
            /\ loopTimers' = LookupTimers(sessions, loopTimers, sid)
            /\ task' = [task EXCEPT ![t] = [IdleTask EXCEPT !.op = "rollback", !.pc = "exec",
                            !.id = LookupExecutor(sessions, sid),
                            !.conn = execConn[LookupExecutor(sessions, sid)],
                            !.kind = RollbackSql]]
            /\ last' = EventX("rollback_send", sid, "found", LookupExecutor(sessions, sid), {})
            /\ UNCHANGED <<closed, disconnects, closing>>
    /\ UNCHANGED <<clock, nextId, expireTasks, connState, execConn,
                   tx, pending, committed, writer, stmtTimeout, call, poolVars, authVars, ret>>

\* ---- savepoint_handler, release_handler ----
\* the savepoint names that are supplied ("" stands for a missing name)
NameInputs == {"", "sp1", "a b"}

\* a validation that lets every name through
validate_nothing(name) == TRUE

\* validate_identifier: at most 63 characters, IDENTIFIER_PATTERN, no dot
validate_identifier(name) == name \in {"sp1"}

\* sanitize_identifier: the name in double quotes
sanitize_identifier(name) == "\"" \o name \o "\""

NameNeverMissing(name) == FALSE
\* if not savepoint_name: raise ToolError
NameMissing(name) == name = ""

\* the statement the handler executes
SavepointSql(op, name) ==
    (IF op = "savepoint" THEN "SAVEPOINT " ELSE "RELEASE SAVEPOINT ")
        \o sanitize_identifier(name)

SavepointStmts ==
    {SavepointSql(op, n) : op \in {"savepoint", "release"},
                           n \in {m \in NameInputs : validate_identifier(m)}}

\* savepoint_handler (op = "savepoint") and release_handler (op = "release") up
\* to the await of executor.execute
SavepointStart(t, op, sid, name) ==
    /\ task[t].pc = "idle"
    /\ IF Falsy(sid)
       THEN \* ToolError("session_id is required")
            /\ last' = EventX(op, sid, "required", name, {})
            /\ UNCHANGED <<sessions, loopTimers, task>>
       ELSE IF NameMissing(name)
       THEN \* ToolError("savepoint_name is required")
            /\ last' = EventX(op, sid, "name_required", name, {})
            /\ UNCHANGED <<sessions, loopTimers, task>>
       ELSE IF LookupExecutor(sessions, sid) = None
       THEN \* ToolError("Invalid or expired session")
            /\ last' = EventX(op, sid, "invalid", name, {})
            /\ UNCHANGED <<sessions, loopTimers, task>>
       ELSE /\ sessions' = LookupSessions(sessions, sid)
            /\ loopTimers' = LookupTimers(sessions, loopTimers, sid)
            /\ IF ~validate_identifier(name)
               THEN \* sanitize_identifier raises InvalidIdentifierError
                    /\ last' = EventX(op, sid, "bad_name", name, {})
                    /\ task' = task
               ELSE IF Busy(execConn[LookupExecutor(sessions, sid)])
               THEN \* asyncpg: another operation is in progress
                    /\ last' = EventX(op, sid, "busy", name, {})
                    /\ task' = task
               ELSE /\ task' = [task EXCEPT ![t] = [IdleTask EXCEPT !.op = op, !.pc = "exec",
                                    !.id = LookupExecutor(sessions, sid),
                                    !.conn = execConn[LookupExecutor(sessions, sid)],
                                    !.kind = SavepointSql(op, name)]]
                    /\ last' = EventX("savepoint_send", sid, "found", name, {})
    /\ UNCHANGED <<clock, nextId, closed, expireTasks, connState, execConn,
                   disconnects, closing, tx, pending, committed, writer, stmtTimeout, call, poolVars, authVars, ret>>

\* ---- the write-class handlers: write, create, alter, drop, vacuum, analyze,
\* reindex ----
SqlHandlers == {"write", "create", "alter", "drop"}
MaintenanceHandlers == {"vacuum", "analyze", "reindex"}
WriteHandlers == SqlHandlers \cup MaintenanceHandlers

\* the 'autocommit' entry of params: no such key, or the value None, False, True
AutocommitInputs == {"absent", "None", "False", "True"}

\* params.get("autocommit") in write_handler and the schema handlers,
\* params.get("autocommit", True) in the maintenance handlers
get_autocommit(h, a) ==
    IF a = "absent" THEN (IF h \in MaintenanceHandlers THEN "True" ELSE "None")
    ELSE a

\* require_write_access raises PermissionError
require_write_access(sid, autocommit) ==
    Falsy(sid) /\ autocommit \in {"None", "False"}

\* resolve_executor was not called
NotResolved == 0

\* the handler h called with params: session_id sid, autocommit a, and 'sql'
\* when hasSql. It runs without a suspension up to its end: the sql check, the
\* access check, resolve_executor, and the await of what resolve_executor
\* returned, which is no awaitable (TypeError)
HandlerRun(h, sid, a, hasSql, via) ==
    LET ac == get_autocommit(h, a)
        ex == resolve_executor(sessions, sid)
        req == {a} \cup (IF hasSql THEN {} ELSE {"nosql"}) \cup via
    IN
    /\ IF h \in SqlHandlers /\ ~hasSql
       THEN \* ValueError: 'sql' is required
            /\ last' = EventX(h, sid, "sql_required", NotResolved, req)
            /\ UNCHANGED <<sessions, loopTimers>>
       ELSE IF require_write_access(sid, ac)
       THEN /\ last' = EventX(h, sid, "denied", NotResolved, req)
            /\ UNCHANGED <<sessions, loopTimers>>
       ELSE /\ IF Falsy(sid)
               THEN UNCHANGED <<sessions, loopTimers>>
               ELSE /\ sessions' = LookupSessions(sessions, sid)
                    /\ loopTimers' = LookupTimers(sessions, loopTimers, sid)
            /\ last' = EventX(h, sid,
                              IF ex = InvalidSession THEN "invalid" ELSE "type_error",
                              ex, req)
    /\ UNCHANGED <<clock, nextId, closed, expireTasks, connState, execConn,
                   disconnects, closing, tx, pending, committed, writer, stmtTimeout, call, poolVars, authVars, ret, task>>

\* the handler called with a params dict of the caller's own
HandlerCall(h, sid, a, hasSql) == HandlerRun(h, sid, a, hasSql, {})

\* pg_query, pg_schema, pg_admin: the params dict always has the key
\* 'autocommit', None when the request has no flag
ToolCall(h, sid, a, hasSql) ==
    /\ a # "absent"
    /\ HandlerRun(h, sid, a, hasSql, {"tool"})

\* ---- AsyncpgSessionExecutor.execute(sql, params, timeout_ms) ----
\* the timeout_ms arguments that are supplied (0 stands for None and for 0)
TimeoutValues == {0, TimeoutMs}

\* f"SET statement_timeout = {int(timeout_ms)}"
SetTimeoutSql(ms) == "SET statement_timeout = " \o ToString(ms)
\* finally: "SET statement_timeout = 0"
ResetTimeoutSql == "SET statement_timeout = 0"

TimeoutStmts == {SetTimeoutSql(ms) : ms \in TimeoutValues}
\* the engine: the value a SET statement_timeout statement sets
TimeoutOf(k) == CHOOSE ms \in TimeoutValues : SetTimeoutSql(ms) = k

\* the executor of a registered session is looked up and its execute is called
\* with a statement and timeout_ms = ms, up to its first await
ExecuteTimed(t, sid, ms) ==
    /\ task[t].pc = "idle"
    /\ sid \in Live
    /\ sessions' = LookupSessions(sessions, sid)
    /\ loopTimers' = LookupTimers(sessions, loopTimers, sid)
    /\ IF Busy(execConn[LookupExecutor(sessions, sid)])
       THEN \* asyncpg: another operation is in progress; raised by the SET
            \* before the try when there is a timeout, by the statement otherwise
            /\ task' = task
            /\ last' = EventX("timed", sid, "busy", ms, {})
       ELSE /\ task' = [task EXCEPT ![t] = [IdleTask EXCEPT !.op = "timed", !.pc = "exec",
                            !.id = LookupExecutor(sessions, sid),
                            !.conn = execConn[LookupExecutor(sessions, sid)],
                            !.kind = IF ms # 0 THEN SetTimeoutSql(ms) ELSE "OP",
                            !.i = ms]]
            /\ last' = EventX("timed_send", sid, "found", ms, {})
    /\ UNCHANGED <<clock, nextId, closed, expireTasks, connState, execConn,
                   disconnects, closing, tx, pending, committed, writer, stmtTimeout, call, poolVars, authVars, ret>>

TimedSend(sql, res) == [send |-> sql, res |-> res]
TimedEnd(res) == [send |-> "none", res |-> res]

\* what execute does when its awaited statement k is done: ms is timeout_ms,
\* res the outcome of the statement of the try ("none" before it was sent)
TimedNext(k, ok, ms, res) ==
    IF k \in TimeoutStmts /\ res = "none"
    THEN \* the SET before the try
         (IF ok THEN TimedSend("OP", "none") ELSE TimedEnd("set_error"))
    ELSE IF k \notin TimeoutStmts
    THEN \* the statement of the try; finally: if timeout_ms: SET ... = 0
         (IF ms # 0 THEN TimedSend(ResetTimeoutSql, IF ok THEN "ok" ELSE "error")
          ELSE TimedEnd(IF ok THEN "ok" ELSE "error"))
    ELSE \* the SET of the finally: when it raises, its error replaces the outcome
         TimedEnd(IF ok THEN res ELSE "reset_error")

\* ---- the engine (PostgreSQL, READ COMMITTED) ----
\* rows a SELECT on connection c returns: what is committed and what the
\* connection's own open transaction has written
Visible(c) == committed \cup pending[c]

\* the statement of task t succeeds: its connection is still open, the engine
\* accepts it, and a transaction that is aborted accepts nothing but its end
\* (COMMIT of an aborted transaction returns the tag ROLLBACK and raises nothing)
EndsTx == {"COMMIT", "ROLLBACK"}

Accepted(t, outcome) ==
    /\ outcome = "ok"
    /\ IF task[t].op = "stateless" THEN TRUE ELSE disconnects[task[t].id] = 0
    /\ tx[task[t].conn] = "aborted" => task[t].kind \in EndsTx
    /\ task[t].kind \in SavepointStmts => tx[task[t].conn] = "open"
    /\ task[t].kind \in ValidBegin \cup EndsTx \cup SavepointStmts \cup TimeoutStmts
                         \cup {"INSERT", "SELECT", "OP"}

CloseEvent(op) == IF op = "commit" THEN "commit_close" ELSE "rollback_close"

\* ---- transaction_handler (the batch) ----
\* an operation either has 'sql' or lacks it
OpsInputs == UNION {[1..n -> {"sql", "nosql"}] : n \in 0..MaxOps}

\* operations is empty: ToolError; else create_session up to its await
BatchStart(t, ops) ==
    /\ task[t].pc = "idle"
    /\ IF ops = << >>
       THEN /\ last' = Event("batch", 0, "required")
            /\ UNCHANGED <<nextId, task, connState, execConn>>
       ELSE IF CapReached(sessions)
       THEN /\ last' = Event("batch", 0, "cap_error")
            /\ UNCHANGED <<nextId, task, connState, execConn>>
       ELSE /\ nextId <= MaxIds
            /\ nextId' = nextId + 1
            /\ last' = Event("create_check", uuid4(nextId), "passed")
            /\ IF IdleConns # {}
               THEN /\ connState' = [connState EXCEPT ![acquire] = "acquired"]
                    /\ execConn' = [execConn EXCEPT ![uuid4(nextId)] = acquire]
                    /\ task' = [task EXCEPT ![t] = [IdleTask EXCEPT !.op = "batch", !.pc = "acquired",
                                    !.id = uuid4(nextId), !.conn = acquire, !.ops = ops]]
               ELSE /\ task' = [task EXCEPT ![t] = [IdleTask EXCEPT !.op = "batch", !.pc = "acquiring",
                                    !.id = uuid4(nextId), !.ops = ops]]
                    /\ UNCHANGED <<connState, execConn>>
    /\ UNCHANGED <<clock, sessions, closed, loopTimers, expireTasks,
                   disconnects, closing, tx, pending, committed,
                   writer, stmtTimeout, call, poolVars, authVars, ret>>

BatchSend(sql, i) == [send |-> sql, i |-> i, res |-> "none"]
BatchRaise(res, i) == [send |-> "none", i |-> i, res |-> res]

\* for i, op in enumerate(operations), entered at index i (from 0)
BatchLoop(i, ops) ==
    IF i >= Len(ops) THEN BatchSend("COMMIT", i)
    ELSE IF ops[i + 1] = "nosql" THEN BatchRaise("missing_sql", i)
    ELSE BatchSend("OP", i)

\* QueryResult has no to_dict: building the response raises AttributeError
BatchResponse(i) == BatchRaise("response_error", i)

\* what the handler does when its statement k, sent at index i, is done
BatchNext(k, ok, i, ops) ==
    IF k = "OP" THEN (IF ok THEN BatchLoop(i + 1, ops) ELSE BatchSend("ROLLBACK", i))
    ELSE IF k = "ROLLBACK" THEN BatchRaise(IF ok THEN "op_failed" ELSE "rollback_error", i)
    ELSE IF k = "COMMIT" THEN (IF ok THEN BatchResponse(i) ELSE BatchRaise("commit_error", i))
    ELSE (IF ok THEN BatchLoop(0, ops) ELSE BatchRaise("begin_error", i))

BatchNoCleanup(S, T, sid) ==
    sessions' = S /\ loopTimers' = T /\ UNCHANGED <<closed, disconnects, closing>>
\* finally: close_session(session_id)
BatchFinally(S, T, sid) == CloseOn(S, T, sid)

\* ---- the awaited statement of task t completes, and its handler goes on ----
StmtDone(t, outcome) ==
    /\ task[t].pc = "exec"
    /\ LET c == task[t].conn
           e == task[t].id   \* the session id of the call; its executor
           k == task[t].kind
           v == task[t].val
           op == task[t].op
           gone == IF op = "stateless" THEN FALSE ELSE disconnects[e] > 0
           ok == Accepted(t, outcome)
           res == IF ok THEN "ok" ELSE "error"
           rows == IF ok /\ k = "SELECT" THEN Visible(c) ELSE {}
       IN
       /\ outcome = "ok" => ok
       /\ k = "ROLLBACK" /\ ~gone => ok   \* the engine rejects no ROLLBACK
       \* the engine rejects a SET statement_timeout in an aborted transaction only
       /\ k \in TimeoutStmts /\ ~gone /\ tx[c] # "aborted" => ok
       /\ tx' = IF gone THEN tx
                ELSE IF k \in ValidBegin /\ ok THEN [tx EXCEPT ![c] = "open"]
                ELSE IF k \in EndsTx THEN [tx EXCEPT ![c] = "none"]
                ELSE IF ~ok /\ tx[c] = "open" THEN [tx EXCEPT ![c] = "aborted"]
                ELSE tx
       /\ pending' = IF gone THEN pending
                     ELSE IF k = "INSERT" /\ ok /\ tx[c] = "open"
                          THEN [pending EXCEPT ![c] = @ \cup {v}]
                     ELSE IF k \in EndsTx THEN [pending EXCEPT ![c] = {}]
                     ELSE pending
       /\ committed' = IF k = "INSERT" /\ ok /\ tx[c] = "none" THEN committed \cup {v}
                       ELSE IF k = "COMMIT" /\ ok /\ tx[c] = "open"
                            THEN committed \cup pending[c]
                       ELSE committed
       \* SET takes effect at once; what a transaction has SET is undone when
       \* the transaction is rolled back
       /\ stmtTimeout' =
              IF gone THEN stmtTimeout
              ELSE IF k \in TimeoutStmts /\ ok
                   THEN [stmtTimeout EXCEPT ![c].cur = TimeoutOf(k)]
              ELSE IF k \in ValidBegin /\ ok
                   THEN [stmtTimeout EXCEPT ![c].atBegin = stmtTimeout[c].cur]
              ELSE IF tx[c] # "none" /\ (k = "ROLLBACK" \/ (k = "COMMIT" /\ tx[c] = "aborted"))
                   THEN [stmtTimeout EXCEPT ![c].cur = stmtTimeout[c].atBegin]
              ELSE stmtTimeout
       /\ writer' = IF k = "INSERT" /\ ok
                    THEN [writer EXCEPT ![v] = IF Falsy(e) THEN None ELSE e]
                    ELSE writer
       /\ CASE op = "stateless" ->
                 \* async with pool.acquire(): the connection goes back to the pool
                 /\ connState' = PoolRelease(connState, c)
                 /\ task' = [task EXCEPT ![t] = IdleTask]
                 /\ last' = EventX(IF k = "SELECT" THEN "read" ELSE "write",
                                   None, res, PoolExecutor, rows)
                 /\ UNCHANGED <<sessions, loopTimers, closed, disconnects, closing>>
            [] op = "session" ->
                 \* the QueryResult is returned
                 /\ task' = [task EXCEPT ![t] = IdleTask]
                 /\ last' = EventX(IF k = "SELECT" THEN "read" ELSE "write",
                                   e, res, e, rows)
                 /\ connState' = SessionConnKept(connState, c)
                 /\ UNCHANGED <<sessions, loopTimers, closed, disconnects, closing>>
            [] op \in {"savepoint", "release"} ->
                 \* enrich_response calls get_session; the result is returned
                 /\ task' = [task EXCEPT ![t] = IdleTask]
                 /\ last' = Event(op, e, res)
                 /\ connState' = SessionConnKept(connState, c)
                 /\ UNCHANGED <<sessions, loopTimers, closed, disconnects, closing>>
            [] op = "timed" ->
                 LET n == TimedNext(k, ok, task[t].i, task[t].res) IN
                 /\ IF n.send # "none"
                    THEN /\ task' = [task EXCEPT ![t].kind = n.send, ![t].res = n.res]
                         /\ last' = EventX("timed_send", e, n.send, task[t].i, {})
                    ELSE /\ task' = [task EXCEPT ![t] = IdleTask]
                         /\ last' = EventX("timed", e, n.res, task[t].i, {})
                 /\ UNCHANGED <<sessions, loopTimers, closed, disconnects, closing,
                                connState>>
            [] op = "begin" /\ ok ->
                 \* enrich_response calls get_session; the session id is returned
                 /\ task' = [task EXCEPT ![t] = IdleTask]
                 /\ last' = Event("begin", e, "ok")
                 /\ UNCHANGED <<sessions, loopTimers, closed, disconnects, closing,
                                connState>>
            [] op = "begin" /\ ~ok ->
                 \* except: close_session(session_id), raise
                 /\ BeginCleanup(sessions, loopTimers, e)
                 /\ task' = [task EXCEPT ![t] =
                       IF e \in Live THEN [task[t] EXCEPT !.pc = "closing", !.res = "begin_failed"]
                       ELSE IdleTask]
                 /\ last' = Event(IF e \in Live THEN "begin_close" ELSE "begin", e, "begin_failed")
                 /\ UNCHANGED connState
            [] op = "batch" ->
                 LET n == BatchNext(k, ok, task[t].i, task[t].ops)
                     lg == Append(task[t].log, [stmt |-> k, idx |-> task[t].i, ok |-> ok])
                 IN
                 /\ IF n.send # "none"
                    THEN /\ task' = [task EXCEPT ![t].kind = n.send, ![t].i = n.i, ![t].log = lg]
                         /\ last' = EventX("batch_send", e, n.send, n.i, lg)
                         /\ UNCHANGED <<sessions, loopTimers, closed, disconnects, closing>>
                    ELSE /\ BatchFinally(sessions, loopTimers, e)
                         /\ task' = [task EXCEPT ![t] =
                               IF e \in Live
                               THEN [task[t] EXCEPT !.pc = "closing", !.res = n.res,
                                                    !.i = n.i, !.log = lg]
                               ELSE IdleTask]
                         /\ last' = EventX(IF e \in Live THEN "batch_close" ELSE "batch",
                                           e, n.res, n.i, lg)
                 /\ UNCHANGED connState
            [] op \in {"commit", "rollback"} ->
                 \* finally: close_session(session_id)
                 /\ EndFinally(sessions, loopTimers, e)
                 /\ task' = [task EXCEPT ![t] =
                       IF e \in Live THEN [task[t] EXCEPT !.pc = "closing", !.res = res]
                       ELSE IdleTask]
                 /\ last' = Event(IF e \in Live THEN CloseEvent(op) ELSE op, e, res)
                 /\ UNCHANGED connState
    /\ UNCHANGED <<clock, nextId, expireTasks, execConn, call, poolVars, authVars, ret>>

\* ---- the whole program ----
IsoInputs == {"", "serializable", "chaos"}
ExecInputs == {None} \cup SidInputs

\* the handlers: begin, statements through resolve_executor, commit; no time
\* passes, so that no session expires (SpecReg and SpecCap cover expiry)
Next ==
    \/ \E t \in Tasks, iso \in IsoInputs : CreateCheck(t, "begin", iso, MaxIds)
    \/ \E t \in Tasks : CreateResume(t)
    \/ \E t \in Tasks, sid \in ExecInputs, v \in Vals : Execute(t, sid, "INSERT", v)
    \/ \E t \in Tasks, sid \in ExecInputs : Execute(t, sid, "SELECT", 0)
    \/ \E t \in Tasks, outcome \in {"ok", "error"} : StmtDone(t, outcome)
    \/ \E t \in Tasks, sid \in ExecInputs : CommitStart(t, sid)
    \/ \E e \in Ids : DisconnectDone(e)

Spec == Init /\ [][Next]_vars

\* the SessionManager under direct calls of its methods
NextReg ==
    \/ \E t \in Tasks : CreateCheck(t, "create", "none", MaxIds)
    \/ \E t \in Tasks : CreateResume(t)
    \/ \E t \in Tasks, sid \in SidInputs : CloseStart(t, sid)
    \/ \E e \in Ids : DisconnectDone(e)
    \/ \E sid \in SidInputs : GetSession(sid)
    \/ \E sid \in SidInputs : GetSessionExecutor(sid)
    \/ \E h \in loopTimers : TimerFire(h)
    \/ \E sid \in Ids : ExpireRun(sid)
    \/ Tick

SpecReg == Init /\ [][NextReg]_vars

\* ---- the registry under direct create_session / close_session calls ----
NextCap ==
    \/ \E t \in Tasks : CreateCheck(t, "create", "none", MaxIdsCap)
    \/ \E t \in Tasks : CreateAcquire(t)
    \/ \E t \in Tasks : CreateResume(t)
    \/ \E t \in Tasks, sid \in CapCloseIds : CloseStart(t, sid)
    \/ \E e \in Ids : DisconnectDone(e)
    \/ \E h \in loopTimers : h.sid \in CapCloseIds /\ TimerFire(h)
    \/ \E sid \in Ids : ExpireRun(sid)
    \/ (nextId \in CapCloseIds /\ Tick)

SpecCap == Init /\ [][NextCap]_vars

\* ---- transactions that end by commit, by rollback or by expiry ----
\* the session whose end is observed is the first one; the reads come from
\* the pool and from the other sessions
TxObserved == uuid4(1)
TxReaders == {None} \cup ((1..MaxIds) \ {TxObserved})
\* the session with id i writes the value i
TxWrites == {<<sid, v>> \in (1..MaxIds) \X TxVals : v = sid}

NextTx ==
    \/ \E t \in Tasks : CreateCheck(t, "begin", "", MaxIds)
    \/ \E t \in Tasks : CreateResume(t)
    \/ \E t \in Tasks, w \in TxWrites : Execute(t, w[1], "INSERT", w[2])
    \/ \E t \in Tasks, sid \in TxReaders : Execute(t, sid, "SELECT", 0)
    \/ \E t \in Tasks, outcome \in {"ok", "error"} : StmtDone(t, outcome)
    \/ \E t \in Tasks, sid \in 1..MaxIds : CommitStart(t, sid)
    \/ \E t \in Tasks : RollbackStart(t, TxObserved)
    \/ \E e \in Ids : DisconnectDone(e)
    \/ \E h \in loopTimers : TimerFire(h)
    \/ \E sid \in Ids : ExpireRun(sid)
    \/ (Cardinality(Live) = MaxIds /\ Tick)

SpecTx == Init /\ [][NextTx]_vars

\* ---- batch transactions, with commit calls and expiry on their sessions ----
NextBatch ==
    \/ \E t \in Tasks, ops \in OpsInputs : BatchStart(t, ops)
    \/ \E t \in Tasks : CreateResume(t)
    \/ \E t \in Tasks, outcome \in {"ok", "error"} : StmtDone(t, outcome)
    \/ \E t \in Tasks, sid \in 1..MaxIds : CommitStart(t, sid)
    \/ \E e \in Ids : DisconnectDone(e)
    \/ \E h \in loopTimers : TimerFire(h)
    \/ \E sid \in Ids : ExpireRun(sid)
    \/ Tick

SpecBatch == Init /\ [][NextBatch]_vars

\* ---- the handlers of pg_tx that take a session id ----
NextEnd ==
    \/ \E t \in Tasks : CreateCheck(t, "begin", "", MaxIds)
    \/ \E t \in Tasks : CreateResume(t)
    \/ \E t \in Tasks, outcome \in {"ok", "error"} : StmtDone(t, outcome)
    \/ \E t \in Tasks, sid \in ExecInputs : CommitStart(t, sid)
    \/ \E t \in Tasks, sid \in ExecInputs : RollbackStart(t, sid)
    \/ \E t \in Tasks, op \in {"savepoint", "release"}, sid \in ExecInputs,
          name \in NameInputs : SavepointStart(t, op, sid, name)
    \/ \E e \in Ids : DisconnectDone(e)
    \/ \E h \in loopTimers : TimerFire(h)
    \/ \E sid \in Ids : ExpireRun(sid)
    \/ Tick

SpecEnd == Init /\ [][NextEnd]_vars

\* ---- write-class requests, next to sessions that one caller begins and
\* commits ----
WriteCaller == CHOOSE t \in Tasks : \A u \in Tasks : t <= u

NextWrite ==
    \/ CreateCheck(WriteCaller, "begin", "", MaxIds)
    \/ CreateResume(WriteCaller)
    \/ \E outcome \in {"ok", "error"} : StmtDone(WriteCaller, outcome)
    \/ \E sid \in 1..MaxIds : CommitStart(WriteCaller, sid)
    \/ \E e \in Ids : DisconnectDone(e)
    \/ \E h \in WriteHandlers, sid \in ExecInputs, a \in AutocommitInputs,
          hasSql \in BOOLEAN : HandlerCall(h, sid, a, hasSql)
    \/ \E h \in WriteHandlers, sid \in ExecInputs, a \in AutocommitInputs,
          hasSql \in BOOLEAN : ToolCall(h, sid, a, hasSql)

SpecWrite == Init /\ [][NextWrite]_vars

\* ---- execute with a timeout on the connections of sessions: of sessions
\* that create_session made (no transaction) and that begin made (a transaction
\* is open) ----
NextTimeout ==
    \/ \E t \in Tasks, op \in {"create", "begin"} : CreateCheck(t, op, "", MaxIds)
    \/ \E t \in Tasks : CreateResume(t)
    \/ \E t \in Tasks, sid \in 1..MaxIds, ms \in TimeoutValues : ExecuteTimed(t, sid, ms)
    \/ \E t \in Tasks, outcome \in {"ok", "error"} : StmtDone(t, outcome)
    \/ \E t \in Tasks, sid \in 1..MaxIds : CommitStart(t, sid)
    \/ \E t \in Tasks, sid \in 1..MaxIds : RollbackStart(t, sid)
    \/ \E e \in Ids : DisconnectDone(e)

SpecTimeout == Init /\ [][NextTimeout]_vars

\* ---- sessions that are created and then left alone: no commit, no
\* rollback, no close; the event loop keeps running its timers and tasks ----
\* a session is created or looked up only while the clock can still reach the
\* expiry that this schedules
CanExpire == clock + SESSION_TTL_MINUTES <= MaxClock
\* the clock advances between the calls
TickBetween == (\A t \in Tasks : task[t].pc = "idle") /\ Tick

NextIdle ==
    \/ \E t \in Tasks : CanExpire /\ CreateCheck(t, "create", "none", MaxIds)
    \/ \E t \in Tasks : CreateResume(t)
    \/ \E sid \in SidInputs : GetSession(sid)
    \/ \E sid \in SidInputs : CanExpire /\ GetSessionExecutor(sid)
    \/ \E e \in Ids : DisconnectDone(e)
    \/ \E h \in loopTimers : TimerFire(h)
    \/ \E sid \in Ids : ExpireRun(sid)
    \/ TickBetween

SpecIdle ==
    /\ Init /\ [][NextIdle]_vars
    /\ WF_vars(TickBetween)
    /\ WF_vars(\E t \in Tasks : CreateResume(t))
    /\ WF_vars(\E h \in loopTimers : TimerFire(h))
    /\ WF_vars(\E sid \in Ids : ExpireRun(sid))
    /\ WF_vars(\E e \in Ids : DisconnectDone(e))

\* ---- AsyncpgSessionExecutor.execute looked at alone: which path a statement
\* takes and the QueryResult that is built from the engine's answer.
\* A str is a sequence of one-character strings. ----
MaxTagLen == 5
MaxRows == 2

Whitespace == {" ", "\t", "\n"}
Lower == <<"a", "b", "c", "d", "e", "f", "g", "h", "i", "j", "k", "l", "m",
           "n", "o", "p", "q", "r", "s", "t", "u", "v", "w", "x", "y", "z">>
Upper == <<"A", "B", "C", "D", "E", "F", "G", "H", "I", "J", "K", "L", "M",
           "N", "O", "P", "Q", "R", "S", "T", "U", "V", "W", "X", "Y", "Z">>
Digits == <<"0", "1", "2", "3", "4", "5", "6", "7", "8", "9">>

RECURSIVE lstrip(_)
lstrip(s) == IF s # <<>> /\ Head(s) \in Whitespace THEN lstrip(Tail(s)) ELSE s

RECURSIVE rstrip(_)
rstrip(s) ==
    IF s # <<>> /\ s[Len(s)] \in Whitespace THEN rstrip(SubSeq(s, 1, Len(s) - 1)) ELSE s

\* str.strip()
strip(s) == rstrip(lstrip(s))

upper_char(c) ==
    IF \E i \in DOMAIN Lower : Lower[i] = c
    THEN Upper[CHOOSE i \in DOMAIN Lower : Lower[i] = c]
    ELSE c

\* str.upper()
str_upper(s) == [i \in 1..Len(s) |-> upper_char(s[i])]

\* str.startswith(prefix)
startswith(s, prefix) == Len(s) >= Len(prefix) /\ SubSeq(s, 1, Len(prefix)) = prefix

\* the end of the token that starts at the head of s
TokenEnd(s) ==
    IF \E i \in DOMAIN s : s[i] \in Whitespace
    THEN (CHOOSE i \in DOMAIN s : s[i] \in Whitespace /\ \A j \in 1..(i - 1) : s[j] \notin Whitespace) - 1
    ELSE Len(s)

\* str.split(): the tokens between runs of whitespace
RECURSIVE split(_)
split(s) ==
    LET u == lstrip(s)
    IN  IF u = <<>> THEN <<>>
        ELSE <<SubSeq(u, 1, TokenEnd(u))>> \o split(SubSeq(u, TokenEnd(u) + 1, Len(u)))

\* str.isdigit()
isdigit(s) == s # <<>> /\ \A i \in DOMAIN s : \E d \in DOMAIN Digits : Digits[d] = s[i]

digit(c) == (CHOOSE d \in DOMAIN Digits : Digits[d] = c) - 1

\* int(str) of a string of digits
RECURSIVE int(_)
int(s) == IF s = <<>> THEN 0 ELSE int(SubSeq(s, 1, Len(s) - 1)) * 10 + digit(s[Len(s)])

\* dict(row): a row is a sequence of <<column, value>>; a later column of the
\* same name replaces the earlier one
dict(row) ==
    [n \in {row[i][1] : i \in DOMAIN row} |->
        row[CHOOSE i \in DOMAIN row :
                row[i][1] = n /\ \A j \in DOMAIN row : row[j][1] = n => j <= i][2]]

SELECT == <<"S", "E", "L", "E", "C", "T">>

\* sql.strip().upper().startswith("SELECT")
IsSelect(sql) == startswith(str_upper(strip(sql)), SELECT)
IsSelectRaw(sql) == startswith(sql, SELECT)

\* the first token instead of the last one
row_count_first(status_message) ==
    IF status_message # <<>>
    THEN LET toks == split(status_message)
         IN  IF toks = <<>> THEN <<"IndexError">> ELSE <<"str", toks[1]>>
    ELSE <<"str", <<"0">>>>

\* row_count_str = status_message.split()[-1] if status_message else '0'
\* an empty split() has no last token: IndexError
row_count_str(status_message) ==
    IF status_message # <<>>
    THEN LET toks == split(status_message)
         IN  IF toks = <<>> THEN <<"IndexError">> ELSE <<"str", toks[Len(toks)]>>
    ELSE <<"str", <<"0">>>>

\* row_count = int(row_count_str) if row_count_str.isdigit() else 0
row_count(s) == IF isdigit(s) THEN int(s) ELSE 0

\* the QueryResult of the row-fetching path
FetchResult(results) ==
    [kind |-> "QueryResult", path |-> "fetch",
     rows |-> [i \in 1..Len(results.rows) |-> dict(results.rows[i])],
     row_count |-> Len(results.rows),
     fields |-> IF results.has_columns THEN results.columns ELSE <<>>]

\* the QueryResult of the status path, or the error of taking the last token
StatusResult(status_message) ==
    LET s == row_count_str(status_message)
    IN  IF s[1] = "IndexError"
        THEN [kind |-> "IndexError", path |-> "execute"]
        ELSE [kind |-> "QueryResult", path |-> "execute",
              rows |-> <<>>, row_count |-> row_count(s[2]), fields |-> <<>>]

\* explain_handler: "EXPLAIN [ANALYZE] FORMAT JSON <sql>"
EXPLAIN == <<"E", "X", "P", "L", "A", "I", "N">>
ANALYZE == <<"A", "N", "A", "L", "Y", "Z", "E">>
FORMAT_JSON == <<"F", "O", "R", "M", "A", "T", " ", "J", "S", "O", "N">>

RECURSIVE join(_, _)
join(sep, parts) ==
    IF Len(parts) = 0 THEN <<>>
    ELSE IF Len(parts) = 1 THEN parts[1]
    ELSE parts[1] \o sep \o join(sep, Tail(parts))

explain_sql(analyze, sql) ==
    LET explain_parts == <<EXPLAIN>> \o (IF analyze THEN <<ANALYZE>> ELSE <<>>) \o <<FORMAT_JSON>>
    IN  join(<<" ">>, explain_parts) \o <<" ">> \o sql

\* statements of callers
SelectSql == <<"S", "E", "L", "E", "C", "T", " ", "1">>
LowerSelectSql == <<"s", "e", "l", "e", "c", "t", " ", "1">>
\* as in the triple-quoted statements of the schema and monitor actions
IndentedSelectSql == <<"\n", " ", " ", "S", "e", "l", "e", "c", "t", " ", "1", " ">>
InsertSql == <<"I", "N", "S", "E", "R", "T", " ", "I", "N", "T", "O", " ", "t">>
\* maintenance.py
VacuumSql == <<"V", "A", "C", "U", "U", "M">>
\* settings.py: the read of one setting
ShowSql == <<"S", "H", "O", "W", " ", "x">>

QuerySqls == {SelectSql, LowerSelectSql, IndentedSelectSql}
SqlInputs ==
    QuerySqls \cup {InsertSql, VacuumSql, ShowSql}
        \cup {explain_sql(analyze, SelectSql) : analyze \in BOOLEAN}

\* the engine: the statements that return rows, by their leading keyword
SHOW == <<"S", "H", "O", "W">>
RowReturningKeywords == {SELECT, EXPLAIN, SHOW}
LeadingKeyword(sql) == LET toks == split(str_upper(sql)) IN IF toks = <<>> THEN <<>> ELSE toks[1]
RowReturning(sql) == LeadingKeyword(sql) \in RowReturningKeywords

\* the rows the engine returns
RowInputs == {<<<<"a", 2>>, <<"b", 1>>>>, <<<<"a", 1>>, <<"a", 2>>>>}
RowsInputs == UNION {[1..n -> RowInputs] : n \in 0..MaxRows}
ColumnsOf(rows) ==
    IF rows = <<>> THEN <<>>
    ELSE [i \in 1..Len(rows[1]) |-> [name |-> rows[1][i][1], type |-> "int"]]
\* a list of records as asyncpg returns it has no columns attribute; the
\* result object of the unit tests has one
ResultsInputs ==
    {[rows |-> rows, has_columns |-> h, columns |-> IF h THEN ColumnsOf(rows) ELSE <<>>] :
        rows \in RowsInputs, h \in BOOLEAN}

\* the command tags of the engine: empty, or tokens separated by one space,
\* the first one a word
TagAlphabet == {"A", "0", "1", " "}
CommandTag(s) ==
    s # <<>> =>
        /\ s[1] = "A"
        /\ s[Len(s)] # " "
        /\ \A i \in 1..(Len(s) - 1) : ~(s[i] = " " /\ s[i + 1] = " ")
TagInputs == {s \in UNION {[1..n -> TagAlphabet] : n \in 0..MaxTagLen} : CommandTag(s)}

\* a call: the statement, and what the engine answers to fetch() and to
\* execute() of it; only a statement that returns rows is answered with rows
ExecuteInputs(sql) ==
    {[fn |-> "execute", sql |-> sql, results |-> results, status_message |-> tag] :
        results \in IF RowReturning(sql) THEN ResultsInputs
                    ELSE {r \in ResultsInputs : r.rows = <<>>},
        tag \in TagInputs}

ExecuteCalled == call # NoCall /\ call.fn = "execute"

ExecuteFetch ==
    /\ ExecuteCalled /\ ret = NoCall
    /\ IsSelect(call.sql)
    /\ ret' = FetchResult(call.results)
    /\ UNCHANGED <<clock, nextId, sessions, closed, loopTimers, expireTasks, connState,
                   execConn, disconnects, closing, tx, pending, committed, writer,
                   stmtTimeout, call, poolVars, authVars, task, last>>

ExecuteStatus ==
    /\ ExecuteCalled /\ ret = NoCall
    /\ ~IsSelect(call.sql)
    /\ ret' = StatusResult(call.status_message)
    /\ UNCHANGED <<clock, nextId, sessions, closed, loopTimers, expireTasks, connState,
                   execConn, disconnects, closing, tx, pending, committed, writer,
                   stmtTimeout, call, poolVars, authVars, task, last>>

InitResult ==
    /\ InitCore
    /\ \E sql \in SqlInputs : call \in ExecuteInputs(sql)
    /\ ret = NoCall

NextResult == ExecuteFetch \/ ExecuteStatus

SpecResult == InitResult /\ [][NextResult]_vars

\* ---- list_sessions and the list action of pg_tx ----
SecondsPerMinute == 60
\* timedelta.total_seconds() of a span of loop time
total_seconds(minutes) == minutes * SecondsPerMinute

\* the keys of a dict as a list (the model lists them by id)
RECURSIVE items(_)
items(keys) ==
    IF keys = {} THEN <<>>
    ELSE LET k == CHOOSE x \in keys : \A y \in keys : x <= y
         IN  <<k>> \o items(keys \ {k})

\* the dict of one item
session_entry(session_id, data, now) ==
    [id |-> session_id,
     idle_time_seconds |-> total_seconds(now - data.last_accessed),
     expires_in_seconds |->
         total_seconds(data.last_accessed + SESSION_TTL_MINUTES - now)]

entries(S, ids, now) == [i \in 1..Len(ids) |-> session_entry(ids[i], S[ids[i]], now)]

list_sessions_but_first(S, now) ==
    entries(S, IF DOMAIN S = {} THEN <<>> ELSE Tail(items(DOMAIN S)), now)

\* list_sessions(): one dict per item of _sessions
list_sessions(S, now) == entries(S, items(DOMAIN S), now)

\* list_handler: {"sessions": sessions, "count": len(sessions)}
ListSessions ==
    /\ ret' = [kind |-> "list", sessions |-> list_sessions(sessions, clock),
               count |-> Len(list_sessions(sessions, clock))]
    /\ last' = Event("list", 0, "ok")
    /\ UNCHANGED <<clock, nextId, sessions, closed, loopTimers, expireTasks,
                   connState, execConn, disconnects, closing, tx, pending,
                   committed, writer, stmtTimeout, call, poolVars, authVars, task>>

NextList ==
    \/ \E t \in Tasks : CreateCheck(t, "create", "none", MaxIds)
    \/ \E t \in Tasks : CreateResume(t)
    \/ \E t \in Tasks, sid \in SidInputs : CloseStart(t, sid)
    \/ \E e \in Ids : DisconnectDone(e)
    \/ \E sid \in SidInputs : GetSessionExecutor(sid)
    \/ \E h \in loopTimers : TimerFire(h)
    \/ \E sid \in Ids : ExpireRun(sid)
    \/ Tick
    \/ ListSessions

SpecList == Init /\ [][NextList]_vars

\* ---- AsyncpgPoolExecutor._get_pool under its first callers: execute()
\* and create_session() both start with pool = await self._get_pool() ----
PoolFns == {"execute", "create_session"}

\* if self._pool is None:
PoolMissing(p) == p = NoPool

\* the call up to the await of asyncpg.create_pool(...), or, when _pool is
\* set, to the return of self._pool
GetPoolCheck(c, fn) ==
    /\ caller[c].pc = "idle"
    /\ IF PoolMissing(pool)
       THEN caller' = [caller EXCEPT ![c] = [pc |-> "creating", fn |-> fn, pool |-> NoPool]]
       ELSE caller' = [caller EXCEPT ![c] = [pc |-> "has_pool", fn |-> fn, pool |-> pool]]
    /\ last' = Event("get_pool", c, IF PoolMissing(pool) THEN "create_pool" ELSE "cached")
    /\ UNCHANGED <<pool, created>>
    /\ UNCHANGED <<clock, nextId, sessions, closed, loopTimers, expireTasks, connState,
                   execConn, disconnects, closing, tx, pending, committed, writer,
                   stmtTimeout, call, ret, authVars, task>>

\* create_pool is done: self._pool = <the new pool>; return self._pool
GetPoolCreated(c) ==
    /\ caller[c].pc = "creating"
    /\ created' = created + 1
    /\ pool' = created + 1
    /\ caller' = [caller EXCEPT ![c].pc = "has_pool", ![c].pool = pool']
    /\ last' = Event("get_pool", c, "created")
    /\ UNCHANGED <<clock, nextId, sessions, closed, loopTimers, expireTasks, connState,
                   execConn, disconnects, closing, tx, pending, committed, writer,
                   stmtTimeout, call, ret, authVars, task>>

\* the caller goes on with the pool it got: pool.acquire() on it
PoolAcquire(c) ==
    /\ caller[c].pc = "has_pool"
    /\ caller' = [caller EXCEPT ![c].pc = "acquired"]
    /\ last' = Event("pool_acquire", c, caller[c].fn)
    /\ UNCHANGED <<pool, created>>
    /\ UNCHANGED <<clock, nextId, sessions, closed, loopTimers, expireTasks, connState,
                   execConn, disconnects, closing, tx, pending, committed, writer,
                   stmtTimeout, call, ret, authVars, task>>

\* execute: the statement is done, the connection goes back to the pool it
\* came from, and the coroutine may call again
PoolCallEnd(c) ==
    /\ caller[c].pc = "acquired" /\ caller[c].fn = "execute"
    /\ caller' = [caller EXCEPT ![c] = IdleCaller]
    /\ last' = Event("pool_release", c, "execute")
    /\ UNCHANGED <<pool, created>>
    /\ UNCHANGED <<clock, nextId, sessions, closed, loopTimers, expireTasks, connState,
                   execConn, disconnects, closing, tx, pending, committed, writer,
                   stmtTimeout, call, ret, authVars, task>>

NextPool ==
    \/ \E c \in Callers, fn \in PoolFns : GetPoolCheck(c, fn)
    \/ \E c \in Callers : GetPoolCreated(c)
    \/ \E c \in Callers : PoolAcquire(c)
    \/ \E c \in Callers : PoolCallEnd(c)

SpecPool == Init /\ [][NextPool]_vars

\* a pool that holds one connection more than DefaultMaxSize
InitEverySlot == InitCore /\ call = NoCall /\ ret = NoCall

\* ---- the pool as AsyncpgPoolExecutor creates it: create_pool is called
\* without min_size and max_size, and asyncpg's default max_size is 10.
\* Sessions are created and stay live and idle; stateless calls come in. ----
DefaultMaxSize == 10

InitStarve ==
    /\ InitPool([c \in Conns |-> IF c <= DefaultMaxSize THEN "idle" ELSE "absent"])
    /\ call = NoCall /\ ret = NoCall

\* AsyncpgPoolExecutor.execute called with no session id: async with
\* pool.acquire() takes a connection that is not handed out, or waits for one
ExecuteCall(t) ==
    /\ task[t].pc = "idle"
    /\ IF IdleConns # {}
       THEN /\ connState' = [connState EXCEPT ![acquire] = "acquired"]
            /\ task' = [task EXCEPT ![t] = [IdleTask EXCEPT !.op = "stateless",
                            !.pc = "exec", !.id = None, !.conn = acquire, !.kind = "SELECT"]]
            /\ last' = EventX("resolve", None, "pool", PoolExecutor, {})
       ELSE /\ task' = [task EXCEPT ![t] = [IdleTask EXCEPT !.op = "stateless",
                            !.pc = "acquiring", !.id = None, !.kind = "SELECT"]]
            /\ last' = EventX("resolve", None, "waits", PoolExecutor, {})
            /\ UNCHANGED connState
    /\ UNCHANGED <<clock, nextId, sessions, closed, loopTimers, expireTasks,
                   execConn, disconnects, closing, tx, pending, committed, writer,
                   stmtTimeout, call, ret, poolVars, authVars>>

\* the call that waits in pool.acquire() gets a connection that was released
ExecuteAcquire(t) ==
    /\ task[t].pc = "acquiring" /\ task[t].op = "stateless"
    /\ IdleConns # {}
    /\ connState' = [connState EXCEPT ![acquire] = "acquired"]
    /\ task' = [task EXCEPT ![t].pc = "exec", ![t].conn = acquire]
    /\ last' = EventX("acquire", None, "pool", PoolExecutor, {})
    /\ UNCHANGED <<clock, nextId, sessions, closed, loopTimers, expireTasks,
                   execConn, disconnects, closing, tx, pending, committed, writer,
                   stmtTimeout, call, ret, poolVars, authVars>>

NextStarve ==
    \/ \E t \in Tasks : CreateCheck(t, "create", "none", MAX_SESSIONS)
    \/ \E t \in Tasks : CreateAcquire(t)
    \/ \E t \in Tasks : CreateResume(t)
    \/ \E t \in Tasks : ExecuteCall(t)
    \/ \E t \in Tasks : ExecuteAcquire(t)
    \/ \E t \in Tasks, outcome \in {"ok", "error"} : StmtDone(t, outcome)

\* the event loop runs every coroutine that can go on; the pool serves its
\* waiters in turn
StarveFairness ==
    /\ \A t \in Tasks : SF_vars(ExecuteAcquire(t))
    /\ \A t \in Tasks : SF_vars(CreateAcquire(t))
    /\ \A t \in Tasks : WF_vars(CreateResume(t))
    /\ \A t \in Tasks : WF_vars(\E outcome \in {"ok", "error"} : StmtDone(t, outcome))

SpecStarve == InitStarve /\ [][NextStarve]_vars /\ StarveFairness

\* the same with a pool that has one connection more than the session cap
SpecRoomy == Init /\ [][NextStarve]_vars /\ StarveFairness

\* ---- create_session at the cap, on the pool as AsyncpgPoolExecutor
\* creates it ----
SpecDebit == InitStarve /\ [][NextCap]_vars

\* ---- statements through a session id: read, write, explain, savepoint and
\* release on sessions that begin made, next to commit, rollback and expiry ----
StmtSids == 1..MaxIds
\* a savepoint name that passes validation
StmtName == CHOOSE name \in NameInputs : ~NameMissing(name) /\ validate_identifier(name)

NextStmt ==
    \/ \E t \in Tasks : CreateCheck(t, "begin", "", MaxIds)
    \/ \E t \in Tasks : CreateResume(t)
    \/ \E t \in Tasks, w \in TxWrites : Execute(t, w[1], "INSERT", w[2])
    \/ \E t \in Tasks, sid \in StmtSids : Execute(t, sid, "SELECT", 0)
    \/ \E t \in Tasks, op \in {"savepoint", "release"}, sid \in StmtSids :
          SavepointStart(t, op, sid, StmtName)
    \/ \E t \in Tasks, outcome \in {"ok", "error"} : StmtDone(t, outcome)
    \/ \E t \in Tasks : CommitStart(t, TxObserved)
    \/ \E t \in Tasks, sid \in StmtSids \ {TxObserved} : RollbackStart(t, sid)
    \/ \E e \in Ids : DisconnectDone(e)
    \/ \E h \in loopTimers : TimerFire(h)
    \/ \E sid \in Ids : ExpireRun(sid)
    \/ (Cardinality(Live) = MaxIds /\ Tick)

SpecStmt == Init /\ [][NextStmt]_vars

\* ---- create_session when the acquisition of the connection fails ----
FailureRegisters(S, sid) == Register(S, sid, sid)
\* except Exception as e: logger.error(...); raise -- nothing is registered
FailureRaises(S, sid) == S

\* first cap check, uuid4, and the call of pool_executor.create_session()
\* when no connection is at hand at once: the pool has to wait for one or to
\* open one, and the coroutine is suspended in the acquisition
CreateSuspends(t, op, maxIds) ==
    /\ task[t].pc = "idle"
    /\ ~CapReached(sessions)
    /\ nextId <= maxIds
    /\ nextId' = nextId + 1
    /\ task' = [task EXCEPT ![t] = [IdleTask EXCEPT !.op = op, !.pc = "acquiring",
                    !.id = uuid4(nextId), !.kind = ""]]
    /\ last' = Event("create_check", uuid4(nextId), "passed")
    /\ UNCHANGED <<clock, sessions, closed, loopTimers, expireTasks, connState, execConn,
                   disconnects, closing, tx, pending, committed,
                   writer, stmtTimeout, call, ret, poolVars, authVars>>

\* the acquisition raises (the engine is unreachable, the wait timed out):
\* create_session logs and re-raises; begin_handler calls create_session
\* outside its try
CreateAcquireFails(t) ==
    /\ task[t].pc = "acquiring"
    /\ task[t].op \in {"create", "begin"}
    /\ sessions' = FailureRaises(sessions, task[t].id)
    /\ task' = [task EXCEPT ![t] = IdleTask]
    /\ last' = Event(task[t].op, task[t].id, "acquire_error")
    /\ UNCHANGED <<clock, nextId, closed, loopTimers, expireTasks, connState, execConn,
                   disconnects, closing, tx, pending, committed,
                   writer, stmtTimeout, call, ret, poolVars, authVars>>

NextAcq ==
    \/ \E t \in Tasks : CreateCheck(t, "create", "none", MaxIds)
    \/ \E t \in Tasks, op \in {"create", "begin"} : CreateSuspends(t, op, MaxIds)
    \/ \E t \in Tasks : CreateAcquire(t)
    \/ \E t \in Tasks : CreateAcquireFails(t)
    \/ \E t \in Tasks : CreateResume(t)
    \/ \E t \in Tasks, outcome \in {"ok", "error"} : StmtDone(t, outcome)
    \/ \E t \in Tasks, sid \in SidInputs : CloseStart(t, sid)
    \/ \E e \in Ids : DisconnectDone(e)
    \/ \E sid \in SidInputs : GetSessionExecutor(sid)
    \/ \E h \in loopTimers : TimerFire(h)
    \/ \E sid \in Ids : ExpireRun(sid)
    \/ Tick

SpecAcq == Init /\ [][NextAcq]_vars

\* ---- validate_identifier and sanitize_identifier looked at alone, on
\* names as sequences of characters ----
MAX_IDENTIFIER_LENGTH == 63
MaxNameLen == 3

Quote == "\""
Letters == {Lower[i] : i \in DOMAIN Lower} \cup {Upper[i] : i \in DOMAIN Upper}
\* IDENTIFIER_PATTERN: ^[a-zA-Z_][a-zA-Z0-9_$"]*$
IdentifierStart == Letters \cup {"_"}
IdentifierRest == Letters \cup {Digits[d] : d \in DOMAIN Digits} \cup {"_", "$", Quote}

\* IDENTIFIER_PATTERN.match(name); $ also matches before a newline that ends
\* the string
pattern_match(name) ==
    /\ name # <<>>
    /\ name[1] \in IdentifierStart
    /\ LET body == IF Len(name) > 1 /\ name[Len(name)] = "\n"
                   THEN SubSeq(name, 1, Len(name) - 1) ELSE name
       IN  \A i \in 2..Len(body) : body[i] \in IdentifierRest

\* validate_identifier: TRUE when it returns, FALSE when it raises
\* InvalidIdentifierError
validate_identifier_str(name) ==
    /\ ~(Len(name) > MAX_IDENTIFIER_LENGTH)
    /\ pattern_match(name)
    /\ ~(\E i \in DOMAIN name : name[i] = ".")

\* a replace that leaves the quotes alone
no_replace(name) == name

\* name.replace('"', '""')
RECURSIVE replace_quote(_)
replace_quote(name) ==
    IF name = <<>> THEN <<>>
    ELSE (IF Head(name) = Quote THEN <<Quote, Quote>> ELSE <<Head(name)>>)
             \o replace_quote(Tail(name))

\* sanitize_identifier after validate_identifier: f'"{escaped_name}"'
sanitize_identifier_str(name) == <<Quote>> \o replace_quote(name) \o <<Quote>>

\* the names as the callers' strings
Chars(name) ==
    CASE name = "sp1" -> <<"s", "p", "1">>
      [] name = "a b" -> <<"a", " ", "b">>
      [] OTHER -> <<>>

NameAlphabet == {"a", "1", "_", Quote, ".", " ", ";", "\n"}
LongName == [i \in 1..(MAX_IDENTIFIER_LENGTH + 1) |-> "a"]
NameStrInputs ==
    UNION {[1..n -> NameAlphabet] : n \in 1..MaxNameLen} \cup {LongName}

SanitizeInputs == {[fn |-> "sanitize_identifier", name |-> n] : n \in NameStrInputs}

SanitizeCalled == call # NoCall /\ call.fn = "sanitize_identifier"

SanitizeReturns ==
    /\ SanitizeCalled /\ ret = NoCall
    /\ validate_identifier_str(call.name)
    /\ ret' = [kind |-> "str", value |-> sanitize_identifier_str(call.name)]
    /\ UNCHANGED <<clock, nextId, sessions, closed, loopTimers, expireTasks, connState,
                   execConn, disconnects, closing, tx, pending, committed, writer,
                   stmtTimeout, call, poolVars, authVars, task, last>>

SanitizeRaises ==
    /\ SanitizeCalled /\ ret = NoCall
    /\ ~validate_identifier_str(call.name)
    /\ ret' = [kind |-> "InvalidIdentifierError", value |-> <<>>]
    /\ UNCHANGED <<clock, nextId, sessions, closed, loopTimers, expireTasks, connState,
                   execConn, disconnects, closing, tx, pending, committed, writer,
                   stmtTimeout, call, poolVars, authVars, task, last>>

InitIdent == InitCore /\ call \in SanitizeInputs /\ ret = NoCall

NextIdent == SanitizeReturns \/ SanitizeRaises

SpecIdent == InitIdent /\ [][NextIdent]_vars

\* ---- server.py: the tools of the tools directory behind auth_wrapper ----
\* os.listdir(tools_path), each file name without its .py
ToolFiles ==
    {<<"a", "d", "m", "i", "n", "_", "v", "a", "c", "u", "u", "m">>,
     <<"a", "u", "t", "h", "_", "u", "n", "l", "o", "c", "k">>,
     <<"m", "o", "n", "i", "t", "o", "r", "_", "a", "c", "t", "i", "v", "i", "t", "y">>,
     <<"p", "g", "_", "a", "d", "m", "i", "n">>,
     <<"p", "g", "_", "m", "o", "n", "i", "t", "o", "r">>,
     <<"p", "g", "_", "q", "u", "e", "r", "y">>,
     <<"p", "g", "_", "s", "c", "h", "e", "m", "a">>,
     <<"p", "g", "_", "t", "x">>,
     <<"q", "u", "e", "r", "y", "_", "e", "x", "p", "l", "a", "i", "n">>,
     <<"q", "u", "e", "r", "y", "_", "r", "e", "a", "d">>,
     <<"q", "u", "e", "r", "y", "_", "w", "r", "i", "t", "e">>,
     <<"s", "c", "h", "e", "m", "a", "_", "c", "r", "e", "a", "t", "e">>,
     <<"s", "c", "h", "e", "m", "a", "_", "d", "e", "s", "c", "r", "i", "b", "e">>,
     <<"s", "c", "h", "e", "m", "a", "_", "l", "i", "s", "t">>,
     <<"t", "x", "_", "b", "e", "g", "i", "n">>,
     <<"t", "x", "_", "c", "o", "m", "m", "i", "t">>,
     <<"t", "x", "_", "l", "i", "s", "t">>,
     <<"t", "x", "_", "r", "o", "l", "l", "b", "a", "c", "k">>}

AuthUnlockName == <<"a", "u", "t", "h", "_", "u", "n", "l", "o", "c", "k">>

\* dangerous_prefixes
dangerous_prefixes == {<<"a", "d", "m", "i", "n", "_">>, <<"s", "c", "h", "e", "m", "a", "_">>, <<"q", "u", "e", "r", "y", "_", "w", "r", "i", "t", "e">>}

\* any(name.startswith(p) for p in dangerous_prefixes)
is_dangerous(name) == \E p \in dangerous_prefixes : startswith(name, p)

\* os.getenv(key, default)
getenv(env, key, default) == IF key \in DOMAIN env THEN env[key] ELSE default

\* expected_token of auth_unlock
expected_token == getenv(environ, "COLDQUERY_AUTH_TOKEN", "let_me_in")

EnvInputs == {<< >>, [k \in {"COLDQUERY_AUTH_TOKEN"} |-> "s3cret"]}
TokenInputs == {"let_me_in", "s3cret", ""}

\* an unlock that reaches every client session
UnlockEvery(S, c) == [d \in DOMAIN S |-> [k \in DOMAIN S[d] \cup {"unlocked"} |-> TRUE]]

\* ctx.session["unlocked"] = True
Unlock(S, c) == [S EXCEPT ![c] = [k \in DOMAIN @ \cup {"unlocked"} |-> TRUE]]

\* not ctx.session.get("unlocked")
is_locked(session) == ~("unlocked" \in DOMAIN session /\ session["unlocked"] = TRUE)

\* the auth_unlock tool, called by client session c
AuthUnlock(c, token) ==
    /\ unlockLog' = unlockLog \cup {<<c, token>>}
    /\ IF token = expected_token
       THEN /\ ctxSession' = Unlock(ctxSession, c)
            /\ last' = EventX("auth_unlock", c, "Session unlocked. Dangerous tools enabled.", token, {})
       ELSE /\ ctxSession' = ctxSession
            /\ last' = EventX("auth_unlock", c, "Invalid token.", token, {})
    /\ UNCHANGED <<clock, nextId, sessions, closed, loopTimers, expireTasks, connState,
                   execConn, disconnects, closing, tx, pending, committed, writer,
                   stmtTimeout, call, ret, poolVars, environ, task>>

\* a tool that load_tools registered behind auth_wrapper, called by client
\* session c: the wrapper raises, or forwards the call to the tool's body
WrappedToolCall(c, name) ==
    /\ is_dangerous(name)
    /\ last' = EventX("tool", c, IF is_locked(ctxSession[c]) THEN "locked" ELSE "body", name, {})
    /\ UNCHANGED <<clock, nextId, sessions, closed, loopTimers, expireTasks, connState,
                   execConn, disconnects, closing, tx, pending, committed, writer,
                   stmtTimeout, call, ret, poolVars, authVars, task>>

\* a tool that load_tools registered as it is
PlainToolCall(c, name) ==
    /\ ~is_dangerous(name)
    /\ name # AuthUnlockName
    /\ last' = EventX("tool", c, "body", name, {})
    /\ UNCHANGED <<clock, nextId, sessions, closed, loopTimers, expireTasks, connState,
                   execConn, disconnects, closing, tx, pending, committed, writer,
                   stmtTimeout, call, ret, poolVars, authVars, task>>

InitAuth ==
    \E env \in EnvInputs :
        InitEnv([c \in Conns |-> "idle"], env) /\ call = NoCall /\ ret = NoCall

NextAuth ==
    \/ \E c \in Clients, token \in TokenInputs : AuthUnlock(c, token)
    \/ \E c \in Clients, name \in ToolFiles : WrappedToolCall(c, name)
    \/ \E c \in Clients, name \in ToolFiles : PlainToolCall(c, name)

SpecAuth == InitAuth /\ [][NextAuth]_vars

\* ---- claims ----

Creating(id) ==
    \E t \in Tasks : task[t].id = id /\ task[t].pc \in {"acquiring", "acquired", "rejecting"}

\* C1: in every reachable state of every interleaving of concurrent
\* create_session calls (also suspended at the acquisition) with close_session
\* calls and expiry, at most MAX_SESSIONS sessions are registered
C1_SessionCap == Cardinality(Live) <= MAX_SESSIONS

\* the cap is reached while another create_session call, which passed the
\* first check, is suspended with its connection acquired
C1_Witness ==
    /\ Cardinality(Live) = MAX_SESSIONS
    /\ \E t \in Tasks : task[t].pc = "acquired"

\* C2: over all close_session(id) calls and expire tasks of one id the
\* executor's disconnect is invoked exactly once: never twice, once as soon as
\* the id is popped, only in a step that pops a present entry; a close that
\* finds no entry changes neither executors, timers nor the registry
C2_Step ==
    /\ \A e \in Ids : disconnects'[e] <= 1 /\ (e \in closed' => disconnects'[e] = 1)
    /\ \A e \in Ids : disconnects'[e] # disconnects[e] =>
           \E sid \in Live : sessions[sid].executor = e /\ sid \notin DOMAIN sessions'
    /\ last'.res = "noop" =>
           /\ disconnects' = disconnects
           /\ closing' = closing
           /\ loopTimers' = loopTimers
           /\ sessions' = sessions

C2_DisconnectOnce == [][C2_Step]_vars

\* an expire task ran after close_session had popped its id, and found nothing
C2_Witness ==
    /\ last.op = "expire_run" /\ last.res = "noop"
    /\ last.id \in closed
    /\ disconnects[last.id] = 1

\* C3: a create_session call that finds the cap reached after its await has
\* invoked disconnect on the executor it acquired and registered nothing, and
\* it raises the cap error when that disconnect is done; every executor of a
\* create_session call that has returned or raised is registered under at most
\* one id, and is either registered (or was, until closed) or disconnected
C3_NoLeak ==
    /\ \A t \in Tasks : task[t].pc = "rejecting" =>
           /\ task[t].id \notin Live \cup closed
           /\ disconnects[task[t].id] = 1
    /\ last.op = "create" /\ last.res = "cap_error" /\ last.id # 0 =>
           /\ last.id \notin Live \cup closed
           /\ disconnects[last.id] = 1
           /\ last.id \notin closing
    /\ \A id \in 1..(nextId - 1) :
           ~Creating(id) /\ execConn[id] # 0 =>
               \/ id \in Live \cup closed
               \/ disconnects[id] = 1 /\ id \notin closing
    /\ \A e \in Ids : Cardinality({sid \in Live : sessions[sid].executor = e}) <= 1

\* a create_session call was rejected after its await and has raised
C3_Witness ==
    /\ last.op = "create" /\ last.res = "cap_error" /\ last.id # 0
    /\ Cardinality(Live) = MAX_SESSIONS

\* C4: an id that close_session or the expiry has popped stays popped, and
\* get_session_executor and get_session return None for it from then on
C4_Step ==
    /\ closed \subseteq closed'
    /\ \A sid \in closed' :
           /\ LookupExecutor(sessions', sid) = None
           /\ get_session(sessions', sid) = None
    /\ last'.op \in {"get_session", "get_session_executor"} /\ last'.id \in closed
           => last'.res = "none"

C5_Step ==
    /\ last'.op = "get_session" => sessions' = sessions /\ loopTimers' = loopTimers
    /\ last'.op = "get_session_executor" /\ last'.res = "found" =>
           /\ last'.id \in DOMAIN sessions'
           /\ sessions'[last'.id].last_accessed = clock
           /\ sessions'[last'.id].ttl_timer = clock + SESSION_TTL_MINUTES
           /\ \A h \in loopTimers' :
                  h.sid = last'.id => h.when = clock + SESSION_TTL_MINUTES
           /\ Handle(last'.id, clock + SESSION_TTL_MINUTES) \in loopTimers'

C5_SlidingTtl == [][C5_Step]_vars

\* a session that was idle for a TTL is looked up before its expiry ran
C5_Witness ==
    /\ last.op = "get_session_executor" /\ last.res = "found"
    /\ clock >= SESSION_TTL_MINUTES
    /\ sessions[last.id].last_accessed = clock
    /\ Handle(last.id, clock + SESSION_TTL_MINUTES) \in loopTimers

\* C6: with MAX_SESSIONS sessions registered no create_session call passes the
\* first check, it raises the cap error and changes nothing; with fewer, the
\* call passes, and a call that resumes with fewer registers its session
C6_Step ==
    /\ Cardinality(Live) = MAX_SESSIONS => last'.op # "create_check"
    /\ last'.op = "create" /\ last'.res = "cap_error" /\ last'.id = 0 =>
           /\ Cardinality(Live) = MAX_SESSIONS
           /\ sessions' = sessions /\ loopTimers' = loopTimers
           /\ nextId' = nextId /\ connState' = connState
    /\ last'.res = "rejecting" => Cardinality(Live) = MAX_SESSIONS
    /\ last'.op = "create" /\ last'.res = "ok" =>
           /\ last'.id \in DOMAIN sessions'
           /\ Cardinality(DOMAIN sessions') = Cardinality(Live) + 1

C6_CapBoundary == [][C6_Step]_vars

\* with the cap reached before, a session was closed and a later
\* create_session call brought the count back to MAX_SESSIONS
C6_Witness ==
    /\ last.op = "create" /\ last.res = "ok"
    /\ last.id > MAX_SESSIONS
    /\ closed # {}
    /\ Cardinality(Live) = MAX_SESSIONS

\* C7: resolve_executor returns the pool executor only when it is called with
\* no session id (None)
C7_NoPoolForSuppliedId ==
    last.op = "resolve" /\ last.id # None => last.ex # PoolExecutor

\* C8: every registered session has a connection that is checked out of the
\* pool, no two registered sessions have the same connection, and no
\* stateless execute holds the connection of a registered session
SessionConn(sid) == execConn[sessions[sid].executor]

C8_DedicatedConnections ==
    /\ \A sid \in Live : SessionConn(sid) \in Conns
                         /\ connState[SessionConn(sid)] = "acquired"
    /\ \A s1, s2 \in Live : s1 # s2 => SessionConn(s1) # SessionConn(s2)
    /\ \A t \in Tasks : task[t].op = "stateless" /\ task[t].pc = "exec" =>
           \A sid \in Live : SessionConn(sid) # task[t].conn

\* two sessions are registered while a stateless statement is in flight
C8_Witness ==
    /\ Cardinality(Live) = 2
    /\ \E t \in Tasks : task[t].op = "stateless" /\ task[t].pc = "exec"

\* C9: a value inserted through a session becomes committed only in the step
\* that executes the COMMIT of that session, is pending on no connection but
\* that session's, and a read returns only values that are committed or that
\* the reading session wrote itself
C9_Step ==
    /\ \A v \in Vals : v \in committed' /\ v \notin committed =>
           \/ writer'[v] = None
           \/ /\ last'.op \in {"commit", "commit_close"}
              /\ last'.res = "ok"
              /\ last'.id = writer[v]
    /\ \A c \in Conns : \A v \in pending'[c] :
           writer'[v] \in Ids /\ execConn'[writer'[v]] = c
    /\ last'.op = "read" /\ last'.res = "ok" =>
           \A v \in last'.rows : v \in committed' \/ writer'[v] = last'.id

C9_Isolation == [][C9_Step]_vars

\* a read through the pool or another session returned while a session's
\* write was uncommitted, and did not return it
C9_Witness ==
    /\ last.op = "read" /\ last.res = "ok"
    /\ \E v \in Vals :
           /\ writer[v] \in Live
           /\ writer[v] # last.id
           /\ v \in pending[SessionConn(writer[v])]
           /\ v \notin last.rows

\* C10: when commit_handler returns its result for a session, every value
\* written through that session is committed
C10_CommitMakesVisible ==
    last.op = "commit" /\ last.res = "ok" =>
        \A v \in Vals : writer[v] = last.id => v \in committed

\* a step in which a session ends without a successful commit: by
\* rollback_handler, by a commit_handler whose COMMIT raised, or by expiry
EndsUncommitted(ev) ==
    \/ ev.op \in {"rollback", "rollback_close"} /\ ev.res \in {"ok", "error", "busy"}
    \/ ev.op \in {"commit", "commit_close"} /\ ev.res \in {"error", "busy"}
    \/ ev.op = "expire_run" /\ ev.res = "present"

\* C11: when a session ends by rollback, by expiry or by a failed commit, no
\* value written through it is committed, and none becomes committed after
\* the session is closed; a read returns only committed values and the
\* reader's own writes; no step removes a committed value
C11_Step ==
    /\ committed \subseteq committed'
    /\ EndsUncommitted(last') =>
           \A v \in TxVals : writer'[v] = last'.id => v \notin committed'
    /\ \A v \in TxVals :
           writer[v] \in closed /\ v \notin committed => v \notin committed'
    /\ last'.op = "read" /\ last'.res = "ok" =>
           \A v \in last'.rows : v \notin committed' => writer'[v] = last'.id

C11_RollbackInvisible == [][C11_Step]_vars

\* the observed session expired with its write uncommitted, while the value
\* another session committed is there
C11_Witness ==
    /\ last.op = "expire_run" /\ last.res = "present"
    /\ \E v \in TxVals : writer[v] = last.id /\ v \notin committed
    /\ \E v \in TxVals : writer[v] \in Ids \ {last.id} /\ v \in committed

\* the results with which transaction_handler ends after its session was created
BatchEnds == {"begin_error", "missing_sql", "op_failed", "rollback_error",
              "commit_error", "response_error"}

\* C12: once transaction_handler has left its try block on any path, its
\* session is not registered and disconnect was invoked exactly once on its
\* executor, while it awaits the close and when it returns or raises
C12_BatchCleanup ==
    /\ \A t \in Tasks : task[t].op = "batch" /\ task[t].pc = "closing" =>
           /\ task[t].id \notin Live
           /\ disconnects[task[t].id] = 1
    /\ last.op = "batch" /\ last.res \in BatchEnds =>
           /\ last.id \notin Live
           /\ last.id \in closed
           /\ disconnects[last.id] = 1

\* a batch whose second operation failed has rolled back and raised
C12_Witness ==
    /\ last.op = "batch" /\ last.res = "op_failed" /\ last.ex = 1
    /\ last.id \notin Live
    /\ disconnects[last.id] = 1

\* the positions of the failed operations in the log of a batch
FailedAt(lg) == {j \in 1..Len(lg) : lg[j].stmt = "OP" /\ ~lg[j].ok}
FirstFailed(lg) == CHOOSE j \in FailedAt(lg) : \A m \in FailedAt(lg) : j <= m

\* the statements of a batch up to its first failed operation: BEGIN, then the
\* operations 0..i in order, each once, nothing but a ROLLBACK after it
BatchPrefix(lg) ==
    LET j == FirstFailed(lg) IN
    /\ j = lg[j].idx + 2
    /\ lg[1].stmt = "BEGIN" /\ lg[1].ok
    /\ \A m \in 2..j : lg[m].stmt = "OP" /\ lg[m].idx = m - 2 /\ (m < j => lg[m].ok)
    /\ Len(lg) <= j + 1
    /\ Len(lg) = j + 1 => lg[j + 1].stmt = "ROLLBACK"

BatchEvent ==
    last.op \in {"batch", "batch_close", "batch_send"} /\ last.id # 0

\* C13: in a batch whose first failed operation has index i, BEGIN and the
\* operations 0..i were executed in order, each once, ROLLBACK is issued next,
\* nothing else and no COMMIT is executed, and the error the handler raises
\* names index i
C13_BatchOrder ==
    IF BatchEvent
    THEN FailedAt(last.rows) # {} =>
           LET lg == last.rows
               j == FirstFailed(lg) IN
           /\ BatchPrefix(lg)
           /\ Len(lg) = j => last.op = "batch_send" /\ last.res = "ROLLBACK"
           /\ Len(lg) = j + 1 =>
                  /\ last.op \in {"batch", "batch_close"}
                  /\ last.res = "op_failed"
                  /\ last.ex = lg[j].idx
    ELSE TRUE

\* the part of C13 that holds: order of the statements, and the index named
\* whenever the ROLLBACK itself did not raise
C13_OrderOnly ==
    IF BatchEvent
    THEN FailedAt(last.rows) # {} =>
           LET lg == last.rows
               j == FirstFailed(lg) IN
           /\ BatchPrefix(lg)
           /\ Len(lg) = j => last.op = "batch_send" /\ last.res = "ROLLBACK"
           /\ Len(lg) = j + 1 =>
                  /\ last.op \in {"batch", "batch_close"}
                  /\ last.ex = lg[j].idx
                  /\ lg[j + 1].ok => last.res = "op_failed"
                  /\ ~lg[j + 1].ok => last.res = "rollback_error"
    ELSE TRUE

\* C14: a begin that is rejected for its isolation level has acquired no
\* connection and has created no session
C14_RejectBeforeAcquire ==
    last.res = "iso_error" =>
        /\ execConn[last.id] = 0
        /\ last.id \notin closed
        /\ disconnects[last.id] = 0

\* C15: every statement a begin has in flight is BEGIN or BEGIN ISOLATION
\* LEVEL with one of the four levels, and a begin whose isolation level is
\* outside of them sends no statement and leaves its connection's
\* transaction state as it was
C15_Step ==
    /\ \A t \in Tasks : task'[t].op = "begin" /\ task'[t].pc = "exec" =>
           task'[t].kind \in ValidBegin
    /\ \A t \in Tasks :
           task[t].op = "begin" /\ task[t].pc = "acquired" /\ task[t].kind # ""
               /\ upper(task[t].kind) \notin valid_levels =>
           /\ task'[t].pc # "exec"
           /\ tx'[task[t].conn] = tx[task[t].conn]
           /\ \A u \in Tasks : task'[u].id = task[t].id => task'[u].pc # "exec"

C15_ValidatedBegin == [][C15_Step]_vars

\* a begin with a level given in lower case has its BEGIN in flight, another
\* begin was rejected for its level
C15_Witness ==
    /\ \E t \in Tasks : task[t].pc = "exec"
                         /\ task[t].kind = "BEGIN ISOLATION LEVEL SERIALIZABLE"
    /\ last.res = "iso_error"
    /\ tx[execConn[last.id]] = "none"

\* C16: a begin that fails after create_session returned (isolation level,
\* BEGIN rejected) has its session popped and disconnect invoked exactly once,
\* while it awaits the close and when the error reaches the caller
C16_BeginCleanup ==
    /\ \A t \in Tasks : task[t].op = "begin" /\ task[t].pc = "closing" =>
           /\ task[t].id \notin Live
           /\ disconnects[task[t].id] = 1
    /\ last.op = "begin" /\ last.res \in {"iso_error", "begin_failed"} =>
           /\ last.id \notin Live
           /\ last.id \in closed
           /\ disconnects[last.id] = 1

\* the engine rejected the BEGIN of the second begin, while the first
\* session is registered
C16_Witness ==
    /\ last.op = "begin" /\ last.res = "begin_failed"
    /\ Cardinality(Live) = 1
    /\ disconnects[last.id] = 1

\* C17: a commit or a rollback of a registered session has the session popped
\* and disconnect invoked exactly once while it awaits the close and when it
\* has ended, whether its statement succeeded or raised; a statement that
\* raised is the error of the call
EndOps == {"commit", "rollback"}

C17_Ended ==
    /\ \A t \in Tasks : task[t].op \in EndOps /\ task[t].pc = "closing" =>
           /\ task[t].id \notin Live
           /\ disconnects[task[t].id] = 1
    /\ last.op \in EndOps /\ last.res \in {"ok", "error"} =>
           /\ last.id \notin Live
           /\ last.id \in closed
           /\ disconnects[last.id] = 1

C17_Step ==
    /\ C17_Ended'
    /\ \A t \in Tasks :
           task[t].op \in EndOps /\ task[t].pc = "exec" /\ task'[t].pc # "exec"
               /\ (disconnects[task[t].id] > 0 \/ last'.res = "error") =>
           IF task'[t].pc = "closing" THEN task'[t].res = "error"
           ELSE last'.op = task[t].op /\ last'.res = "error"
    /\ \A t \in Tasks :
           task[t].op \in EndOps /\ task[t].pc = "closing" /\ task'[t].pc = "idle" =>
           last' = Event(task[t].op, task[t].id, task[t].res)

C17_EndAlwaysCloses == [][C17_Step]_vars

\* a rollback whose ROLLBACK raised has ended with its error, and a commit has
\* ended without one
C17_Witness ==
    /\ last.op = "rollback" /\ last.res = "error"
    /\ disconnects[last.id] = 1
    /\ \E e \in closed : e # last.id /\ disconnects[e] = 1 /\ committed # {}

\* C18: commit, rollback, savepoint and release send a statement only for a
\* session that is registered, and a call whose session id is missing or not
\* registered (never created, expired, closed) fails with the invalid-session
\* error and leaves the registry, the timers and the engine as they were
TxOps == {"commit", "rollback", "savepoint", "release"}

C18_Sends ==
    \A t \in Tasks :
        task[t].pc = "idle" /\ task'[t].op \in TxOps /\ task'[t].pc \in {"exec", "closing"} =>
            task'[t].id \in Live

\* the step is a call of one of the four handlers that raised before its lookup
\* found a session
C18_Refused ==
    /\ task' = task
    /\ last'.op \in TxOps
    /\ Falsy(last'.id) \/ last'.id \notin Live

C18_Untouched ==
    UNCHANGED <<sessions, closed, loopTimers, expireTasks, connState, execConn,
                disconnects, closing, tx, pending, committed>>

C18_StepInvalid ==
    /\ C18_Sends
    /\ C18_Refused => last'.res = "invalid" /\ C18_Untouched

C18_AllInvalidSession == [][C18_StepInvalid]_vars

\* C18 as the handlers have it: a missing session id is refused with the
\* session-id-required error, savepoint and release without a savepoint name
\* with the name-required error whatever the session id is, every other id that
\* is not registered with the invalid-session error
C18_Error(ev) ==
    IF Falsy(ev.id) THEN "required"
    ELSE IF ev.op \in {"savepoint", "release"} /\ ev.ex = "" THEN "name_required"
    ELSE "invalid"

C18_StepRefused ==
    /\ C18_Sends
    /\ C18_Refused => last'.res = C18_Error(last') /\ C18_Untouched

C18_RefusedUnchanged == [][C18_StepRefused]_vars

\* before any session can have expired, a commit of a session that an earlier
\* commit or rollback closed is refused as invalid, while another session is
\* registered
C18_Witness ==
    /\ last.op = "commit" /\ last.res = "invalid"
    /\ clock = 0
    /\ last.id \in closed
    /\ disconnects[last.id] = 1
    /\ last.id \notin closing
    /\ Live # {}

\* C19: a write-class request with neither a session id nor an autocommit flag
\* (no 'autocommit' key, or None) is denied, and no executor was resolved for
\* it; the request has its 'sql'
C19_NoFlag(ev) ==
    /\ ev.op \in WriteHandlers
    /\ Falsy(ev.id)
    /\ ev.rows \cap {"True", "False", "nosql"} = {}

C19_DeniedFirst == C19_NoFlag(last) => last.res = "denied" /\ last.ex = NotResolved

\* the same for the requests that come through the tools
C19_ToolDeniedFirst ==
    C19_NoFlag(last) /\ "tool" \in last.rows =>
        last.res = "denied" /\ last.ex = NotResolved

\* C20: when an execute with a timeout on a session's connection has returned
\* or raised and the connection is still open, the connection's
\* statement_timeout is 0
C20_Ends(t) ==
    /\ task[t].op = "timed" /\ task[t].i # 0
    /\ task[t].pc = "exec" /\ task'[t].pc = "idle"
    /\ disconnects'[task[t].id] = 0

C20_Step ==
    \A t \in Tasks : C20_Ends(t) => stmtTimeout'[task[t].conn].cur = 0

C20_TimeoutCleared == [][C20_Step]_vars

\* the same for the calls that do not end in an aborted transaction
C20_StepNotAborted ==
    \A t \in Tasks : C20_Ends(t) /\ tx'[task[t].conn] # "aborted" =>
        stmtTimeout'[task[t].conn].cur = 0

C20_ClearedUnlessAborted == [][C20_StepNotAborted]_vars

\* C21: a stateless call takes one connection that was not handed out, holds
\* it alone while its statement is in flight, and has released it when it
\* returns or raises: the connections that are handed out are then those of
\* before the call, and the connection is idle in the pool
StatelessAt(T, t) == T[t].op = "stateless" /\ T[t].pc = "exec"

SessionHeld ==
    {execConn[e] : e \in {i \in Ids : execConn[i] # 0 /\ (i \in Live \/ i \in closing \/ Creating(i))}}

C21_Held ==
    \A t \in Tasks : StatelessAt(task, t) =>
        /\ task[t].conn \in InUse
        /\ task[t].conn \notin SessionHeld
        /\ \A u \in Tasks \ {t} : StatelessAt(task, u) => task[u].conn # task[t].conn

C21_Step ==
    /\ C21_Held'
    /\ \A t \in Tasks :
           /\ ~StatelessAt(task, t) /\ StatelessAt(task', t) =>
                  /\ task'[t].conn \notin InUse
                  /\ InUse' = InUse \cup {task'[t].conn}
           /\ StatelessAt(task, t) /\ ~StatelessAt(task', t) =>
                  /\ task[t].conn \in InUse
                  /\ InUse' = InUse \ {task[t].conn}
                  /\ connState'[task[t].conn] = "idle"
                  /\ last'.res \in {"ok", "error"}

C21_CountStep ==
    \A t \in Tasks :
        /\ ~StatelessAt(task, t) /\ StatelessAt(task', t) =>
               get_size' = get_size /\ get_idle_size' = get_idle_size - 1
        /\ StatelessAt(task, t) /\ ~StatelessAt(task', t) =>
               get_size' = get_size /\ get_idle_size' = get_idle_size + 1

Quiescent ==
    /\ Live = {} /\ closing = {}
    /\ \A t \in Tasks : task[t].pc = "idle"

C22_Step ==
    /\ Quiescent' => InUse' = {}
    /\ \A e \in Ids :
           /\ e \in closing /\ e \notin closing' =>
                  /\ disconnects[e] = 1
                  /\ execConn[e] \in InUse
                  /\ InUse' = InUse \ {execConn[e]}
                  /\ connState'[execConn[e]] = "closed"
           /\ e \in Live' \/ e \in closing' => execConn[e] \in InUse'

C23_Clean(c) == tx[c] = "none" /\ pending[c] = {}

C23_Step ==
    /\ destroy
    /\ \A c \in Conns :
           IF connState'[c] # "acquired"
           THEN C23_Clean(c)'
           ELSE connState[c] # "acquired" => C23_Clean(c) /\ C23_Clean(c)'

InFlight(sid) == \E t \in Tasks : task[t].pc = "exec" /\ task[t].id = sid

C24_Step ==
    \A sid \in Live :
        last'.op = "expire_run" /\ last'.id = sid /\ sid \notin Live' => ~InFlight(sid)

C24_ExpiryWaits == [][C24_Step]_vars

\* C25: the expiry closes a session only when a full TTL has passed since its
\* latest successful lookup
C25_Step ==
    \A sid \in Live :
        last'.op = "expire_run" /\ last'.id = sid /\ sid \notin Live' =>
            clock >= sessions[sid].last_accessed + SESSION_TTL_MINUTES

C25_FullTtl == [][C25_Step]_vars

\* C26: a session that is registered and is left alone is eventually out of
\* the registry, with disconnect invoked once and completed and its connection
\* closed
C26_Released(sid) ==
    /\ sid \notin Live
    /\ disconnects[sid] = 1
    /\ sid \notin closing
    /\ execConn[sid] \notin InUse

C26_EventuallyClosed ==
    \A sid \in 1..MaxIds : (sid \in Live) ~> C26_Released(sid)

\* both sessions have expired
C26_Witness ==
    /\ last.op = "expire"
    /\ \A sid \in 1..MaxIds : sid \in closed /\ C26_Released(sid)
    /\ clock >= SESSION_TTL_MINUTES

\* C27: the Result of execute: on the row-fetching path rows holds every
\* returned row in order and row_count is their number; on the status path
\* rows and fields are empty and row_count is the trailing integer of the
\* status tag, 0 when the tag is empty or its last token is not a non-negative
\* integer, and never an error
DigitChars == {Digits[d] : d \in DOMAIN Digits}

RECURSIVE Pow10(_)
Pow10(n) == IF n = 0 THEN 1 ELSE 10 * Pow10(n - 1)

RECURSIVE DecimalValue(_)
DecimalValue(s) ==
    IF s = <<>> THEN 0 ELSE digit(Head(s)) * Pow10(Len(s) - 1) + DecimalValue(Tail(s))

LastToken(tag) ==
    LET spaces == {i \in DOMAIN tag : tag[i] \in Whitespace}
        from == IF spaces = {} THEN 1 ELSE (CHOOSE i \in spaces : \A j \in spaces : j <= i) + 1
    IN  SubSeq(tag, from, Len(tag))

TrailingInteger(tag) ==
    LET tok == LastToken(tag)
    IN  IF tok # <<>> /\ \A i \in DOMAIN tok : tok[i] \in DigitChars THEN DecimalValue(tok) ELSE 0

RowHeld(returned, held) ==
    /\ DOMAIN held = {returned[j][1] : j \in DOMAIN returned}
    /\ \A j \in DOMAIN returned :
           (\A k \in DOMAIN returned : k > j => returned[k][1] # returned[j][1])
               => held[returned[j][1]] = returned[j][2]

C27_ResultShape ==
    ret # NoCall =>
        /\ ret.kind = "QueryResult"
        /\ ret.path = "fetch" =>
               /\ Len(ret.rows) = Len(call.results.rows)
               /\ \A i \in DOMAIN ret.rows : RowHeld(call.results.rows[i], ret.rows[i])
               /\ ret.row_count = Len(call.results.rows)
        /\ ret.path = "execute" =>
               /\ ret.rows = <<>>
               /\ ret.fields = <<>>
               /\ ret.row_count = TrailingInteger(call.status_message)

\* a status tag of three tokens whose last one is a positive integer
C27_Witness ==
    /\ ret # NoCall /\ ret.path = "execute"
    /\ Len(split(call.status_message)) > 2
    /\ ret.row_count > 0

\* C28: execute takes the row-fetching path exactly when the leading keyword
\* of the statement is that of a statement that returns rows, so the rows of
\* every such statement are in the Result
C28_RoutedByKeyword ==
    ret # NoCall =>
        /\ ret.path = "fetch" <=> RowReturning(call.sql)
        /\ RowReturning(call.sql) => Len(ret.rows) = Len(call.results.rows)

\* the part that holds: a statement whose leading keyword is SELECT, in any
\* letter case and after any leading whitespace, takes the row-fetching path
C28_SelectFetched ==
    ret # NoCall => (LeadingKeyword(call.sql) = SELECT <=> ret.path = "fetch")

\* C29: when the engine rejects the statement of an execute, the call raises
\* the engine's error for that statement: no error of the executor's own
\* cleanup takes its place
C29_Rejected(t) ==
    /\ task[t].op = "timed" /\ task[t].pc = "exec"
    /\ task[t].res = "error"
    /\ disconnects[task[t].id] = 0

C29_Step ==
    \A t \in Tasks : C29_Rejected(t) /\ task'[t].pc = "idle" => last'.res = "error"

C29_EngineErrorReachesCaller == [][C29_Step]_vars

\* the same for the calls that do not leave a transaction aborted
C29_StepNotAborted ==
    \A t \in Tasks :
        C29_Rejected(t) /\ task'[t].pc = "idle" /\ tx[task[t].conn] # "aborted"
            => last'.res = "error"

C29_UnmaskedUnlessAborted == [][C29_StepNotAborted]_vars

\* the statement is sent once: when its answer is there, execute sends the
\* reset or ends
C29_StepOnce ==
    \A t \in Tasks :
        task[t].op = "timed" /\ task[t].pc = "exec" /\ task[t].kind = "OP"
            /\ task'[t] # task[t] => task'[t].kind # "OP"

C29_IssuedOnce == [][C29_StepOnce]_vars

\* C30: list_sessions returns one entry for each registered session and no
\* other entry, count is the number of registered sessions, and the call
\* leaves the registry, every last_accessed and every expiry timer as they were
C30_Step ==
    last'.op = "list" =>
        /\ ret'.count = Cardinality(Live)
        /\ Len(ret'.sessions) = Cardinality(Live)
        /\ \A sid \in Live :
               Cardinality({i \in DOMAIN ret'.sessions : ret'.sessions[i].id = sid}) = 1
        /\ \A i \in DOMAIN ret'.sessions :
               /\ ret'.sessions[i].id \in Live
               /\ ret'.sessions[i].idle_time_seconds
                      = (clock - sessions[ret'.sessions[i].id].last_accessed) * SecondsPerMinute
        /\ sessions' = sessions
        /\ loopTimers' = loopTimers
        /\ expireTasks' = expireTasks

C30_ListReadOnly == [][C30_Step]_vars

\* two sessions are listed, one of them idle for some time and with its
\* expiry timer pending
C30_Witness ==
    /\ last.op = "list"
    /\ Cardinality(Live) = MaxIds /\ ret.count = MaxIds
    /\ \E i \in DOMAIN ret.sessions : ret.sessions[i].idle_time_seconds > 0
    /\ \A sid \in Live : Handle(sid, sessions[sid].ttl_timer) \in loopTimers

\* C31: under concurrent first calls of execute() and create_session() the
\* executor creates at most one pool, and every caller works on that pool
C31_OnePool ==
    /\ created <= 1
    /\ \A c \in Callers : caller[c].pool # NoPool => caller[c].pool = pool

\* the same for callers that arrive when _pool is set: they get that pool and
\* no pool is created for them
C31_StepCached ==
    \A c \in Callers :
        caller[c].pc = "idle" /\ caller'[c].pc # "idle" /\ pool # NoPool =>
            /\ caller'[c].pool = pool
            /\ created' = created

C31_CachedPoolReused == [][C31_StepCached]_vars

\* C32: a stateless execute() that is called, also when MAX_SESSIONS sessions
\* are live and idle, eventually has its connection and completes, while no
\* session is closed
C32_StatelessCompletes ==
    \A t \in Tasks : (task[t].op = "stateless") ~> (task[t].pc = "idle")

\* C33: a create_session call takes at most one connection out of the pool,
\* and the connections that are checked out for sessions (registered, being
\* created or being disconnected) are never more than MAX_SESSIONS
C33_Step ==
    \A t \in Tasks :
        /\ task'[t].op = "create" /\ task'[t].pc = "acquired" /\ task[t].pc # "acquired" =>
               /\ task'[t].conn \notin InUse
               /\ InUse' = InUse \cup {task'[t].conn}
        \* the call goes on after the acquisition: it takes no other connection
        /\ task[t].op = "create" /\ task[t].pc = "acquired" /\ task'[t] # task[t] =>
               InUse' \subseteq InUse

TimersOf(sid) == {h \in loopTimers : h.sid = sid}

C34_OneTimerPerSession ==
    /\ \A sid \in Ids : Cardinality(TimersOf(sid)) <= 1
    /\ \A h \in loopTimers : h.sid \in Live /\ sessions[h.sid].ttl_timer = h.when

\* a session was looked up after its first timer was scheduled and has the
\* new timer only, and another session was closed and has none
C34_Witness ==
    /\ \E sid \in Live :
           /\ sessions[sid].last_accessed > 0
           /\ TimersOf(sid) = {Handle(sid, sessions[sid].last_accessed + SESSION_TTL_MINUTES)}
    /\ \E sid \in closed : TimersOf(sid) = {}

\* C35: a statement that is executed through a session id (read, write,
\* explain, savepoint, release), accepted or rejected by the engine, leaves
\* the session registered and its connection checked out and open; a session
\* leaves the registry only by commit, rollback, expiry or a failed begin
StatementEvents == {"resolve", "savepoint_send", "read", "write", "savepoint", "release"}
EndEvents == {"commit_close", "rollback_close", "expire_run", "begin_close"}

C35_Step ==
    /\ last'.op \in StatementEvents =>
           /\ DOMAIN sessions' = DOMAIN sessions
           /\ connState' = connState
           /\ disconnects' = disconnects
           /\ closing' = closing
    /\ DOMAIN sessions \ DOMAIN sessions' # {} => last'.op \in EndEvents

C35_StatementsKeepSession == [][C35_Step]_vars

\* the engine has rejected a write of a session: the transaction is aborted,
\* the session is registered and its connection is checked out
C35_Witness ==
    /\ last.op = "write" /\ last.res = "error"
    /\ last.id \in Live
    /\ connState[execConn[last.id]] = "acquired"
    /\ tx[execConn[last.id]] = "aborted"
    /\ disconnects[last.id] = 0

\* C36: a batch whose n operations all succeed has sent n + 2 statements on
\* its session's connection, BEGIN, operation 0 .. operation n - 1, COMMIT,
\* no ROLLBACK, and returns a result with status committed
C36_AllSucceeded ==
    /\ last.op = "batch" /\ last.res \notin {"required", "cap_error"}
    /\ Len(last.rows) > 0
    /\ \A i \in DOMAIN last.rows : last.rows[i].ok
    /\ last.rows[Len(last.rows)].stmt = "COMMIT"

C36_CommittedBatch ==
    C36_AllSucceeded =>
        /\ Len(last.rows) = last.ex + 2
        /\ last.rows[1].stmt = "BEGIN"
        /\ \A i \in 2..(Len(last.rows) - 1) :
               last.rows[i].stmt = "OP" /\ last.rows[i].idx = i - 2
        /\ last.res = "committed"

\* the part that holds: the statements and their order
C36_StatementOrder ==
    C36_AllSucceeded =>
        /\ Len(last.rows) = last.ex + 2
        /\ last.rows[1].stmt = "BEGIN"
        /\ \A i \in 2..(Len(last.rows) - 1) :
               last.rows[i].stmt = "OP" /\ last.rows[i].idx = i - 2
        /\ \A i \in DOMAIN last.rows : last.rows[i].stmt # "ROLLBACK"
        /\ last.id \in closed /\ last.id \notin Live

\* C37: when the acquisition of the connection fails inside create_session,
\* the error reaches the caller, the id of the call is not registered and has
\* no expiry timer, and the registry, its size and the timers are as before
C37_Step ==
    \A t \in Tasks :
        task[t].pc = "acquiring" /\ task'[t].pc = "idle" =>
            /\ last'.res = "acquire_error" /\ last'.id = task[t].id
            /\ sessions' = sessions
            /\ Cardinality(DOMAIN sessions') = Cardinality(DOMAIN sessions)
            /\ task[t].id \notin DOMAIN sessions'
            /\ loopTimers' = loopTimers
            /\ \A h \in loopTimers' : h.sid # task[t].id
            /\ connState' = connState /\ execConn'[task[t].id] = 0

C37_AcquireFailure == [][C37_Step]_vars

\* an acquisition has failed while another session is registered with its
\* timer; the id of the failed call is nowhere
C37_Witness ==
    /\ last.res = "acquire_error"
    /\ last.id \notin Live /\ last.id \notin closed
    /\ Live # {} /\ loopTimers # {}

\* C38: savepoint and release on a live session send a statement only for a
\* name that passed validation, with the name in double quotes; for a name
\* that fails validation no statement is sent, the invalid-identifier error
\* is raised, and the session stays registered with its transaction as it was
\* the engine's reading of a quoted identifier: the text between the outer
\* quotes, every "" standing for one quote; <<FALSE>> when it is not one
RECURSIVE unquote_body(_)
unquote_body(body) ==
    IF body = <<>> THEN <<TRUE, <<>>>>
    ELSE IF Head(body) # Quote
    THEN LET r == unquote_body(Tail(body))
         IN  IF r[1] THEN <<TRUE, <<Head(body)>> \o r[2]>> ELSE <<FALSE>>
    ELSE IF Len(body) >= 2 /\ body[2] = Quote
    THEN LET r == unquote_body(Tail(Tail(body)))
         IN  IF r[1] THEN <<TRUE, <<Quote>> \o r[2]>> ELSE <<FALSE>>
    ELSE <<FALSE>>

QuotedIdentifier(q) ==
    IF Len(q) >= 2 /\ q[1] = Quote /\ q[Len(q)] = Quote
    THEN unquote_body(SubSeq(q, 2, Len(q) - 1))
    ELSE <<FALSE>>

\* sanitize_identifier returns one quoted identifier that names the input
C38_Quoted ==
    ret # NoCall /\ SanitizeCalled =>
        IF ret.kind = "str"
        THEN /\ validate_identifier_str(call.name)
             /\ QuotedIdentifier(ret.value) = <<TRUE, call.name>>
        ELSE ~validate_identifier_str(call.name)

C38_Step ==
    /\ last'.op = "savepoint_send" =>
           /\ validate_identifier(last'.ex)
           /\ validate_identifier_str(Chars(last'.ex))
           /\ QuotedIdentifier(sanitize_identifier_str(Chars(last'.ex)))
                  = <<TRUE, Chars(last'.ex)>>
           /\ \E t \in Tasks :
                  /\ task[t].pc = "idle" /\ task'[t].pc = "exec"
                  /\ task'[t].kind \in {"SAVEPOINT \"" \o last'.ex \o "\"",
                                        "RELEASE SAVEPOINT \"" \o last'.ex \o "\""}
    /\ last'.op \in {"savepoint", "release"} /\ last'.res = "bad_name" =>
           /\ ~validate_identifier_str(Chars(last'.ex))
           /\ task' = task
           /\ last'.id \in DOMAIN sessions /\ last'.id \in DOMAIN sessions'
           /\ DOMAIN sessions' = DOMAIN sessions
           /\ tx' = tx /\ connState' = connState
           /\ closing' = closing /\ disconnects' = disconnects
    /\ \A t \in Tasks :
           task'[t].pc = "exec" /\ task'[t].op \in {"savepoint", "release"}
               /\ task[t].pc = "idle" => last'.op = "savepoint_send"

C38_OnlyValidatedNames == [][C38_Step]_vars

\* a savepoint with a name that fails validation was refused on a session
\* whose transaction is open; the session is registered, the transaction open
C38_Witness ==
    /\ last.op = "savepoint" /\ last.res = "bad_name"
    /\ last.id \in Live
    /\ tx[execConn[last.id]] = "open"
    /\ \A t \in Tasks : task[t].pc = "idle"

\* C39: a tool whose name starts with admin_, schema_ or query_write runs its
\* body for a client session only after an auth_unlock call of that same
\* client session gave the expected token; a call with another token leaves
\* every client session as it was, and an unlock changes no other client
\* session
C39_Gated(name) ==
    \/ startswith(name, <<"a", "d", "m", "i", "n", "_">>)
    \/ startswith(name, <<"s", "c", "h", "e", "m", "a", "_">>)
    \/ startswith(name, <<"q", "u", "e", "r", "y", "_", "w", "r", "i", "t", "e">>)

C39_Step ==
    /\ last'.op = "tool" /\ C39_Gated(last'.ex) /\ last'.res = "body" =>
           <<last'.id, expected_token>> \in unlockLog
    /\ last'.op = "tool" /\ C39_Gated(last'.ex)
           /\ <<last'.id, expected_token>> \notin unlockLog =>
           last'.res = "locked"
    /\ last'.op = "auth_unlock" =>
           /\ last'.ex # expected_token => ctxSession' = ctxSession
           /\ \A d \in Clients \ {last'.id} : ctxSession'[d] = ctxSession[d]
           /\ last'.ex = expected_token => ~is_locked(ctxSession'[last'.id])

C39_LockedUntilUnlocked ==
    /\ [](\A c \in Clients :
              ~is_locked(ctxSession[c]) => <<c, expected_token>> \in unlockLog)
    /\ [][C39_Step]_vars

\* one client session ran a guarded tool's body after its unlock while the
\* other, which gave a token that is not the expected one, is locked
C39_Witness ==
    /\ last.op = "tool" /\ C39_Gated(last.ex) /\ last.res = "body"
    /\ \E d \in Clients \ {last.id} :
           /\ is_locked(ctxSession[d])
           /\ \E token \in TokenInputs \ {expected_token} : <<d, token>> \in unlockLog

====
